---- MODULE Spec2Model ----
(***************************************************************************)
(* A model of the sans-I/O DTLS connection and of the ICE agent of         *)
(* webrtc-rs/ortc:                                                         *)
(*   dtls/src/conn/mod.rs            DTLSConn (read, write, close, the     *)
(*                                   inbound and the outbound record path) *)
(*   dtls/src/handshaker.rs          the handshake FSM                     *)
(*   dtls/src/dtls_handlers/dtls_connection_handler.rs                     *)
(*                                   transport_active and handle_timeout   *)
(*   rtc/src/handlers/dtls.rs        the transport that owns the endpoint  *)
(*   rtc-ice/src/agent/mod.rs        Agent (candidates, checklist, pending *)
(*                                   requests, connection state, restart)  *)
(*                                                                         *)
(* The connection is one record, conn, whose fields are the fields of      *)
(* DTLSConn (and of its State).  The methods are operators from a          *)
(* connection to a connection plus a return value, so that a method that   *)
(* calls another is the composition the code is.                           *)
(*                                                                         *)
(* Code of the repository that src/ does not hold is modelled from the     *)
(* specification and marked so where it is defined: the flights            *)
(* (generate, parse and their three queries), the replay detector, the     *)
(* cipher suite, the value of MAX_SEQUENCE_NUMBER, and the selectors of    *)
(* the agent (agent_selector.rs).  The handshake                           *)
(* cache and the fragment buffer keep no state here: what the model needs  *)
(* of them is the answer fragment_buffer.push gives for a record.          *)
(***************************************************************************)
EXTENDS Integers, Sequences, FiniteSets, TLC

VARIABLES
    conn,        \* the DTLSConn
    hs_active,   \* a call of DTLSConn::handshake is inside its loop
    hs_spins,    \* loop iterations of that call that left the FSM as it was
    now,         \* Instant::now()
    op,          \* the last operation and what it returned
    wire,        \* the records handle_outgoing_packets handed to next_conn.send
    received,    \* the datagrams read_and_buffer was given, counted
    endpoint_closed,  \* RTCDtlsTransport closed its dtls_endpoint
    agent,       \* the ICE Agent
    ice_op,      \* the last operation of the agent and what it returned
    call         \* a call of a function of conn/mod.rs on bytes, and what it returned

vars == <<conn, hs_active, hs_spins, now, op, wire, received, endpoint_closed, agent, ice_op,
          call>>

----------------------------------------------------------------------------
\* Bounds of the model.

\* the clock stops here
MaxTime == 1
\* outgoing_packets holds at most this many packets when an operation starts
MaxOutgoing == 3
\* incoming_decrypted_packets / incoming_encrypted_packets hold at most this many
MaxIncoming == 2
\* handshake_send_sequence stops a new Preparing step here
MaxSendSequence == 4
\* iterations of the handshake loop that change nothing, before the model stops counting
MaxSpins == 2
\* records handed to the transport, over the life of the connection
MaxWire == 4
\* cfg.maximum_transmission_unit, in bytes of handshake body
MaximumTransmissionUnit == 2
\* the epochs of the records received
MaxEpochIn == 2
\* the datagrams the peer sends
MaxReceived == 3
\* allocations of a sequence number after the 48 bits are exhausted
MaxOverflow == 2
\* SpecIn: the alerts in reply the outgoing queue holds when an operation starts
MaxReplies == 1
\* SpecAlert: the datagrams the peer sends
MaxAlertsIn == 2
\* SpecIce: the clock stops here
MaxIceTime == 2
\* SpecIce: the checklist holds at most this many pairs
MaxPairs == 2
\* SpecIce: the largest max_binding_requests an agent is configured with
MaxMaxBindingRequests == 1
\* SpecIce: the messages send_stun wrote when an operation starts
MaxSent == 3
\* SpecIce: the transaction ids of the responses the peer sends
MaxTransactionId == 2
\* SpecIce: failed_timeout stops validate_selected_pair here
MaxFailedTimeout == 4
\* SpecIceKeepalive: the largest keepalive_interval an agent is configured with, in ticks
MaxKeepaliveInterval == 2

----------------------------------------------------------------------------
\* Option<T>: None is the empty sequence, Some(v) the sequence <<v>>.

None == << >>

Some(v) == <<v>>

IsSome(o) == o # << >>

Unwrap(o) == o[1]

----------------------------------------------------------------------------
\* u64 counters that hold 48-bit sequence numbers.  Integers here are 32 bits
\* wide, so a value is kept as two 24-bit limbs: hi * 2^24 + lo.

LimbBase == 2 ^ 24

U64(hi, lo) == [hi |-> hi, lo |-> lo]

\* v + 1
U64Inc(v) == IF v.lo = LimbBase - 1 THEN U64(v.hi + 1, 0) ELSE U64(v.hi, v.lo + 1)

\* v - 1, for v > 0
U64Dec(v) == IF v.lo = 0 THEN U64(v.hi - 1, LimbBase - 1) ELSE U64(v.hi, v.lo - 1)

\* a > b
U64Gt(a, b) == a.hi > b.hi \/ (a.hi = b.hi /\ a.lo > b.lo)

\* record_layer_header.rs (not under src/): MAX_SEQUENCE_NUMBER = 2^48 - 1, the
\* largest value the 48-bit sequence_number field of a record header holds.
MAX_SEQUENCE_NUMBER == U64(LimbBase - 1, LimbBase - 1)

----------------------------------------------------------------------------
\* Alerts and packets.

Alert(level, desc) == [alert_level |-> level, alert_description |-> desc]

NoAlert == [alert_level |-> "-", alert_description |-> "-"]

\* struct Packet { record: RecordLayer { header { epoch, sequence_number }, content },
\*                 should_encrypt, reset_local_sequence_number }
\* content is the content type; alert, data, message_sequence and body_len are the
\* parts of the content the model follows (body_len: the length of a handshake body).
Packet(content, epoch, should_encrypt, alert, data, body_len) ==
    [content |-> content, epoch |-> epoch, should_encrypt |-> should_encrypt,
     alert |-> alert, data |-> data, message_sequence |-> 0, body_len |-> body_len]

HandshakePacket(epoch, should_encrypt, body_len) ==
    Packet("Handshake", epoch, should_encrypt, NoAlert, << >>, body_len)

ChangeCipherSpecPacket == Packet("ChangeCipherSpec", 0, FALSE, NoAlert, << >>, 0)

AlertPacket(epoch, should_encrypt, level, desc) ==
    Packet("Alert", epoch, should_encrypt, Alert(level, desc), << >>, 0)

ApplicationDataPacket(epoch, p) ==
    Packet("ApplicationData", epoch, TRUE, NoAlert, p, 0)

----------------------------------------------------------------------------
\* The flights.  src/ holds none of dtls/src/flight/*; these follow the
\* specification's data model (a flight is a value with three queries and two
\* operations) and the FSM diagram of handshaker.rs.

Flights == {"Flight0", "Flight1", "Flight2", "Flight3", "Flight4", "Flight5", "Flight6"}

\* Flight::has_retransmit: the server's two first flights answer a ClientHello and
\* are never resent on a timer.
has_retransmit(f) == f \notin {"Flight0", "Flight2"}

\* Flight::is_last_send_flight
is_last_send_flight(f) == f = "Flight6"

\* Flight::is_last_recv_flight
is_last_recv_flight(f) == f = "Flight5"

\* The packets generate() returns for a flight, before prepare() stamps them:
\* epochs are relative to initial_epoch, message_sequence is not yet set.
FlightPackets(f) ==
    CASE f = "Flight0" -> << >>
      [] f = "Flight1" -> << HandshakePacket(0, FALSE, 3) >>
      [] f = "Flight2" -> << HandshakePacket(0, FALSE, 1) >>
      [] f = "Flight3" -> << HandshakePacket(0, FALSE, 3) >>
      [] f = "Flight4" -> << HandshakePacket(0, FALSE, 2), HandshakePacket(0, FALSE, 0) >>
      [] f = "Flight5" -> << HandshakePacket(0, FALSE, 2), ChangeCipherSpecPacket,
                             HandshakePacket(1, TRUE, 1) >>
      [] f = "Flight6" -> << ChangeCipherSpecPacket, HandshakePacket(1, TRUE, 1) >>

\* The flights parse() can name as the next one.
NextFlights(f) ==
    CASE f = "Flight0" -> {"Flight2"}
      [] f = "Flight1" -> {"Flight3", "Flight5"}
      [] f = "Flight2" -> {"Flight4"}
      [] f = "Flight3" -> {"Flight3", "Flight5"}
      [] f = "Flight4" -> {"Flight6"}
      [] f = "Flight5" -> {"Flight5"}
      [] f = "Flight6" -> {"Flight6"}

\* The alert a flight gives with a failure.
FlightAlert == Alert("Fatal", "HandshakeFailure")

\* What generate() and parse() can answer: Ok, or Err((Option<Alert>, Option<Error>))
\* with each of the two present or not.  An outcome is a record
\*   [ok, next (parse only), alert: Option, err: Option].
FlightErrors ==
    { [ok |-> FALSE, next |-> "-", alert |-> a, err |-> e] :
        a \in {None, Some(FlightAlert)}, e \in {None, Some("ErrFlight")} }

\* The answer of an iteration that asks the flight nothing.
NoAnswer == [ok |-> TRUE, next |-> "-", alert |-> None, err |-> None]

GenerateOutcomes(f) == { NoAnswer } \cup FlightErrors

ParseOutcomes(f) ==
    { [ok |-> TRUE, next |-> n, alert |-> None, err |-> None] : n \in NextFlights(f) }
        \cup FlightErrors

\* The cipher suite of State is initialized (its keys derived) by the client when it
\* generates Flight5 and by the server when it parses the client's Flight5 in Flight4.
GenerateInitsCipher(f) == f = "Flight5"

ParseInitsCipher(f) == f = "Flight4"

----------------------------------------------------------------------------
\* Program constants.

\* conn/mod.rs: INITIAL_TICKER_INTERVAL, in seconds
INITIAL_TICKER_INTERVAL == 1

\* conn/mod.rs: DEFAULT_REPLAY_PROTECTION_WINDOW
DEFAULT_REPLAY_PROTECTION_WINDOW == 64

\* handshaker.rs, HandshakeConfig::default: initial_epoch
initial_epoch == 0

----------------------------------------------------------------------------
\* DTLSConn::new

\* The State a resumed session is constructed from: the handshake is behind it, both
\* epochs are 1 and the cipher suite holds its keys.
\* `seed` is the sequence number the session had reached in epoch 1.
ResumedState(seed) ==
    [local_epoch |-> 1, remote_epoch |-> 1, handshake_send_sequence |-> 0,
     cipher_initialized |-> TRUE, local_sequence_number |-> << U64(0, 0), seed >>]

\* State { is_client, ..Default::default() }
FreshState ==
    [local_epoch |-> 0, remote_epoch |-> 0, handshake_send_sequence |-> 0,
     cipher_initialized |-> FALSE, local_sequence_number |-> << >>]

new(is_client, initial_state, retransmit_interval) ==
    LET resumed == IsSome(initial_state)
        state   == IF resumed THEN Unwrap(initial_state) ELSE FreshState
    IN  [ is_client |-> is_client,
          replay_protection_window |-> DEFAULT_REPLAY_PROTECTION_WINDOW,
          replay_detector |-> << >>,
          incoming_decrypted_packets |-> << >>,
          incoming_encrypted_packets |-> << >>,
          outgoing_packets |-> << >>,
          local_epoch |-> state.local_epoch,
          remote_epoch |-> state.remote_epoch,
          handshake_send_sequence |-> state.handshake_send_sequence,
          cipher_initialized |-> state.cipher_initialized,
          local_sequence_number |-> state.local_sequence_number,
          handshake_completed |-> FALSE,
          closed |-> FALSE,
          reader_close_tx |-> TRUE,
          current_handshake_state |-> IF resumed THEN "Finished" ELSE "Preparing",
          current_retransmit_timer |-> None,
          current_flight |->
              IF resumed THEN (IF is_client THEN "Flight5" ELSE "Flight6")
              ELSE (IF is_client THEN "Flight1" ELSE "Flight0"),
          flights |-> None,
          retransmit_interval |-> retransmit_interval,
          retransmit |-> FALSE,
          handshake_rx |-> FALSE,
          \* history, not a field of DTLSConn: the header and the payload of each
          \* ApplicationData record whose payload went into incoming_decrypted_packets
          accepted_records |-> << >>,
          \* history, not a field of DTLSConn: the message_sequence of each handshake
          \* message prepare() stamped, in the order of stamping
          stamped |-> << >> ]

----------------------------------------------------------------------------
\* read, write, close.  A method gives [c: the connection after it, ret, val].

Ret(c, ret, val) == [c |-> c, ret |-> ret, val |-> val]

write_packets(c, pkts) == [c EXCEPT !.outgoing_packets = @ \o pkts]

get_local_epoch(c) == c.local_epoch

is_handshake_completed(c) == c.handshake_completed

is_connection_closed(c) == c.closed

notify(c, level, desc) ==
    write_packets(c, << AlertPacket(get_local_epoch(c), is_handshake_completed(c),
                                    level, desc) >>)

\* read without its look at handshake_completed
read_early(c) ==
    IF c.incoming_decrypted_packets = << >>
    THEN Ret(c, "None", << >>)
    ELSE Ret([c EXCEPT !.incoming_decrypted_packets = Tail(@)],
             "Some", Head(c.incoming_decrypted_packets))

read(c) ==
    IF ~is_handshake_completed(c)
    THEN Ret(c, "None", << >>)
    ELSE IF c.incoming_decrypted_packets = << >>
         THEN Ret(c, "None", << >>)
         ELSE Ret([c EXCEPT !.incoming_decrypted_packets = Tail(@)],
                  "Some", Head(c.incoming_decrypted_packets))

\* the counter of epoch e: lsn[e], 0 while lsn has no entry for e
Counter(lsn, e) == IF Len(lsn) > e THEN lsn[e + 1] ELSE U64(0, 0)

\* a write that gives the sequence number out itself
write_allocating(c, p) ==
    IF is_connection_closed(c)
    THEN Ret(c, "ErrConnClosed", 0)
    ELSE IF ~is_handshake_completed(c)
         THEN Ret(c, "ErrHandshakeInProgress", 0)
         ELSE IF ~U64Gt(MAX_SEQUENCE_NUMBER,
                        Counter(c.local_sequence_number, get_local_epoch(c)))
              THEN Ret(c, "ErrSequenceNumberOverflow", 0)
              ELSE Ret(write_packets(c, << ApplicationDataPacket(get_local_epoch(c), p) >>),
                       "Ok", Len(p))

\* write without its two early returns
write_unchecked(c, p) ==
    Ret(write_packets(c, << ApplicationDataPacket(get_local_epoch(c), p) >>), "Ok", Len(p))

write(c, p) ==
    IF is_connection_closed(c)
    THEN Ret(c, "ErrConnClosed", 0)
    ELSE IF ~is_handshake_completed(c)
         THEN Ret(c, "ErrHandshakeInProgress", 0)
         ELSE Ret(write_packets(c, << ApplicationDataPacket(get_local_epoch(c), p) >>),
                  "Ok", Len(p))

\* close without its look at closed
close_again(c) ==
    Ret([notify([c EXCEPT !.closed = TRUE], "Warning", "CloseNotify")
            EXCEPT !.reader_close_tx = FALSE],
        "Ok", 0)

close(c) ==
    IF ~c.closed
    THEN Ret([notify([c EXCEPT !.closed = TRUE], "Warning", "CloseNotify")
                 EXCEPT !.reader_close_tx = FALSE],
             "Ok", 0)
    ELSE Ret(c, "Ok", 0)

----------------------------------------------------------------------------
\* The handshake FSM.  A state function gives [c, ret, val], val the next state.

\* `as u16`
U16 == 2 ^ 16

\* prepare(): the packets of the flight with their epoch rebased and their
\* message_sequence stamped from handshake_send_sequence `hss` on.
\* A mutant of StampFlight: every packet of the flight takes a message_sequence.
RECURSIVE StampFlight_all(_, _)
StampFlight_all(pkts, hss) ==
    IF pkts = << >> THEN << >>
    ELSE LET p == [Head(pkts) EXCEPT !.epoch = @ + initial_epoch]
         IN  << [p EXCEPT !.message_sequence = hss % U16] >>
                 \o StampFlight_all(Tail(pkts), hss + 1)

RECURSIVE StampFlight(_, _)
StampFlight(pkts, hss) ==
    IF pkts = << >> THEN << >>
    ELSE LET p == [Head(pkts) EXCEPT !.epoch = @ + initial_epoch]
         IN  IF p.content = "Handshake"
             THEN << [p EXCEPT !.message_sequence = hss % U16] >>
                      \o StampFlight(Tail(pkts), hss + 1)
             ELSE << p >> \o StampFlight(Tail(pkts), hss)

\* the message_sequence of the handshake packets of pkts, in their order
RECURSIVE MessageSequences(_)
MessageSequences(pkts) ==
    IF pkts = << >> THEN << >>
    ELSE IF Head(pkts).content = "Handshake"
         THEN << Head(pkts).message_sequence >> \o MessageSequences(Tail(pkts))
         ELSE MessageSequences(Tail(pkts))

NumHandshake(pkts) == Cardinality({ i \in DOMAIN pkts : pkts[i].content = "Handshake" })

MaxEpochOf(pkts) ==
    LET es == { pkts[i].epoch : i \in DOMAIN pkts } \cup {initial_epoch}
    IN  CHOOSE m \in es : \A e \in es : e <= m

prepare(c, g) ==
    LET c1 == [c EXCEPT !.flights = None,
                        !.retransmit = has_retransmit(c.current_flight),
                        !.cipher_initialized =
                            @ \/ (g.ok /\ GenerateInitsCipher(c.current_flight))]
        c2 == IF ~g.ok /\ IsSome(g.alert)
              THEN notify(c1, Unwrap(g.alert).alert_level, Unwrap(g.alert).alert_description)
              ELSE c1
    IN  IF ~g.ok /\ IsSome(g.err)
        THEN Ret(c2, Unwrap(g.err), "-")
        ELSE IF ~g.ok
             THEN Ret(c2, "Ok", "Sending")
             ELSE LET pkts == StampFlight(FlightPackets(c.current_flight),
                                          c.handshake_send_sequence)
                      next_epoch == MaxEpochOf(pkts)
                  IN  Ret([c2 EXCEPT !.flights = Some(pkts),
                                     !.handshake_send_sequence = @ + NumHandshake(pkts),
                                     !.stamped = @ \o MessageSequences(pkts),
                                     !.local_epoch =
                                         IF initial_epoch # next_epoch THEN next_epoch ELSE @],
                          "Ok", "Sending")

\* send() arming the retransmit timer after the last send flight too
send_arming(c, t) ==
    LET c1 == IF IsSome(c.flights) THEN write_packets(c, Unwrap(c.flights)) ELSE c
        c2 == [c1 EXCEPT !.current_retransmit_timer = Some(t + c.retransmit_interval)]
    IN  IF is_last_send_flight(c.current_flight)
        THEN Ret(c2, "Ok", "Finished")
        ELSE Ret(c2, "Ok", "Waiting")

send(c, t) ==
    LET c1 == IF IsSome(c.flights) THEN write_packets(c, Unwrap(c.flights)) ELSE c
    IN  IF is_last_send_flight(c.current_flight)
        THEN Ret(c1, "Ok", "Finished")
        ELSE Ret([c1 EXCEPT !.current_retransmit_timer = Some(t + c.retransmit_interval)],
                 "Ok", "Waiting")

\* A mutant of AfterParse: the alert of a failed parse() is dropped.
AfterParse_silent(c, r) ==
    [c EXCEPT !.handshake_rx = FALSE,
              !.cipher_initialized = @ \/ (r.ok /\ ParseInitsCipher(c.current_flight))]

\* What wait() and finish() share: current_flight.parse() and the alert it may give.
AfterParse(c, r) ==
    LET c1 == [c EXCEPT !.handshake_rx = FALSE,
                        !.cipher_initialized =
                            @ \/ (r.ok /\ ParseInitsCipher(c.current_flight))]
    IN  IF ~r.ok /\ IsSome(r.alert)
        THEN notify(c1, Unwrap(r.alert).alert_level, Unwrap(r.alert).alert_description)
        ELSE c1

\* wait() without its look at the inbound-handshake flag
wait_unflagged(c, r) ==
    LET c1 == AfterParse(c, r)
    IN  IF ~r.ok
        THEN IF IsSome(r.err) THEN Ret(c1, Unwrap(r.err), "-")
             ELSE Ret(c1, "Ok", "Waiting")
        ELSE IF is_last_recv_flight(r.next) /\ c.current_flight = r.next
             THEN Ret(c1, "Ok", "Finished")
             ELSE Ret([c1 EXCEPT !.current_flight = r.next], "Ok", "Preparing")

wait(c, r) ==
    IF c.handshake_rx
    THEN LET c1 == AfterParse(c, r)
         IN  IF ~r.ok
             THEN IF IsSome(r.err) THEN Ret(c1, Unwrap(r.err), "-")
                  ELSE Ret(c1, "Ok", "Waiting")
             ELSE IF is_last_recv_flight(r.next) /\ c.current_flight = r.next
                  THEN Ret(c1, "Ok", "Finished")
                  ELSE Ret([c1 EXCEPT !.current_flight = r.next], "Ok", "Preparing")
    ELSE Ret(c, "Ok", "Waiting")

finish(c, r) ==
    IF c.handshake_rx
    THEN LET c1 == AfterParse(c, r)
         IN  IF ~r.ok /\ IsSome(r.err) THEN Ret(c1, Unwrap(r.err), "-")
             ELSE Ret(c1, "Ok", "Finished")
    ELSE Ret(c, "Ok", "Finished")

----------------------------------------------------------------------------
\* The replay detector (shared::replay_detector::SlidingWindowDetector is not under
\* src/).  From the specification: a per-epoch sliding window; check(seq) says
\* whether seq is fresh, accept() commits the sequence number last checked.
\* mask holds the distances latest_seq - seq of the committed sequence numbers.
\* A received sequence number is a 48-bit field, so it never exceeds max_seq.

SlidingWindowDetector(window_size) ==
    [window_size |-> window_size, latest_seq |-> 0, mask |-> {}, seq |-> 0,
     accepted |-> FALSE]

\* ReplayDetector::check: [d: the detector after it, ok]
check(d, seq) ==
    LET stale == seq <= d.latest_seq
                     /\ (d.latest_seq >= d.window_size + seq
                            \/ (d.latest_seq - seq) \in d.mask)
    IN  IF stale
        THEN [d |-> [d EXCEPT !.accepted = FALSE], ok |-> FALSE]
        ELSE [d |-> [d EXCEPT !.accepted = TRUE, !.seq = seq], ok |-> TRUE]

\* ReplayDetector::accept
accept(d) ==
    IF ~d.accepted THEN d
    ELSE LET shift  == IF d.seq > d.latest_seq THEN d.seq - d.latest_seq ELSE 0
             latest == IF d.seq > d.latest_seq THEN d.seq ELSE d.latest_seq
             moved  == { b + shift : b \in d.mask }
         IN  [d EXCEPT !.latest_seq = latest,
                       !.mask = { b \in moved \cup {latest - d.seq} : b < d.window_size }]

----------------------------------------------------------------------------
\* The inbound path.  A received record is
\*   [hdr_ok   RecordLayerHeader::unmarshal succeeds,
\*    epoch, sequence_number   of the header,
\*    auth     cipher_suite.decrypt succeeds,
\*    content  "Handshake" | "BadHandshake" (fragment_buffer.push fails) |
\*             "ChangeCipherSpec" | "Alert" | "ApplicationData" |
\*             "Undecodable" (RecordLayer::unmarshal fails),
\*    alert, data].

Record(hdr_ok, epoch, seq, auth, content, alert, data) ==
    [hdr_ok |-> hdr_ok, epoch |-> epoch, sequence_number |-> seq, auth |-> auth,
     content |-> content, alert |-> alert, data |-> data]

\* What handle_incoming_packet returns, with the connection after it.
Incoming(c, hs, alert, err) == [c |-> c, hs |-> hs, alert |-> alert, err |-> err]

\* while self.replay_detector.len() <= h.epoch { push(SlidingWindowDetector::new(..)) }
RECURSIVE GrowDetectors(_, _, _)
GrowDetectors(ds, epoch, window) ==
    IF Len(ds) <= epoch
    THEN GrowDetectors(Append(ds, SlidingWindowDetector(window)), epoch, window)
    ELSE ds

\* self.replay_detector[h.epoch].accept()
AcceptAt(c, epoch) ==
    [c EXCEPT !.replay_detector[epoch + 1] = accept(@)]

QueueEncrypted(c, pkt, enqueue) ==
    IF enqueue THEN [c EXCEPT !.incoming_encrypted_packets = Append(@, pkt)] ELSE c

\* A mutant of the ApplicationData arm: the payload is buffered whatever the epoch.
ApplicationData_anyepoch(c, pkt) ==
    Incoming([AcceptAt(c, pkt.epoch)
                 EXCEPT !.incoming_decrypted_packets = Append(@, pkt.data),
                        !.accepted_records =
                            Append(@, [epoch |-> pkt.epoch,
                                       sequence_number |-> pkt.sequence_number,
                                       data |-> pkt.data])],
             FALSE, None, None)

\* Content::ApplicationData(a)
ApplicationData(c, pkt) ==
    IF pkt.epoch = 0
    THEN Incoming(c, FALSE, Some(Alert("Fatal", "UnexpectedMessage")),
                  Some("ErrApplicationDataEpochZero"))
    ELSE Incoming([AcceptAt(c, pkt.epoch)
                      EXCEPT !.incoming_decrypted_packets = Append(@, pkt.data),
                             !.accepted_records =
                                 Append(@, [epoch |-> pkt.epoch,
                                            sequence_number |-> pkt.sequence_number,
                                            data |-> pkt.data])],
                  FALSE, None, None)

\* A mutant of HandleContent: a ChangeCipherSpec is taken whether the cipher suite
\* is initialized or not.
HandleContent_eager(c, pkt, enqueue) ==
    LET epoch == c.remote_epoch
    IN  CASE pkt.content = "BadHandshake" -> Incoming(c, FALSE, None, None)
          [] pkt.content = "Handshake" ->
                 Incoming(AcceptAt(c, pkt.epoch), TRUE, None, None)
          [] pkt.content = "Undecodable" ->
                 Incoming(c, FALSE, Some(Alert("Fatal", "DecodeError")), Some("ErrDecode"))
          [] pkt.content = "Alert" ->
                 LET a == IF pkt.alert.alert_description = "CloseNotify"
                          THEN Alert("Warning", "CloseNotify") ELSE pkt.alert
                 IN  Incoming(AcceptAt(c, pkt.epoch), FALSE, Some(a), Some("ErrAlert"))
          [] pkt.content = "ChangeCipherSpec" ->
                 IF epoch + 1 = pkt.epoch + 1
                 THEN Incoming(AcceptAt([c EXCEPT !.remote_epoch = pkt.epoch + 1],
                                        pkt.epoch),
                               FALSE, None, None)
                 ELSE Incoming(c, FALSE, None, None)
          [] pkt.content = "ApplicationData" -> ApplicationData(c, pkt)

\* The content of a record that passed the epoch check, the replay check and
\* decryption.
HandleContent(c, pkt, enqueue) ==
    LET epoch == c.remote_epoch
    IN  CASE pkt.content = "BadHandshake" -> Incoming(c, FALSE, None, None)
          [] pkt.content = "Handshake" ->
                 Incoming(AcceptAt(c, pkt.epoch), TRUE, None, None)
          [] pkt.content = "Undecodable" ->
                 Incoming(c, FALSE, Some(Alert("Fatal", "DecodeError")), Some("ErrDecode"))
          [] pkt.content = "Alert" ->
                 LET a == IF pkt.alert.alert_description = "CloseNotify"
                          THEN Alert("Warning", "CloseNotify") ELSE pkt.alert
                 IN  Incoming(AcceptAt(c, pkt.epoch), FALSE, Some(a), Some("ErrAlert"))
          [] pkt.content = "ChangeCipherSpec" ->
                 IF ~c.cipher_initialized
                 THEN Incoming(QueueEncrypted(c, pkt, enqueue), FALSE, None, None)
                 ELSE IF epoch + 1 = pkt.epoch + 1
                      THEN Incoming(AcceptAt([c EXCEPT !.remote_epoch = pkt.epoch + 1],
                                             pkt.epoch),
                                    FALSE, None, None)
                      ELSE Incoming(c, FALSE, None, None)
          [] pkt.content = "ApplicationData" -> ApplicationData(c, pkt)

\* Decrypt
HandleDecrypt(c, pkt, enqueue) ==
    IF pkt.epoch # 0 /\ ~c.cipher_initialized
    THEN Incoming(QueueEncrypted(c, pkt, enqueue), FALSE, None, None)
    ELSE IF pkt.epoch # 0 /\ ~pkt.auth
         THEN Incoming(c, FALSE, None, None)
         ELSE HandleContent(c, pkt, enqueue)

\* the record goes on whatever the replay detector says
HandleReplay_unchecked(c, pkt, enqueue) ==
    LET ds == GrowDetectors(c.replay_detector, pkt.epoch, c.replay_protection_window)
        r  == check(ds[pkt.epoch + 1], pkt.sequence_number)
        c1 == [c EXCEPT !.replay_detector = [ds EXCEPT ![pkt.epoch + 1] = r.d]]
    IN  HandleDecrypt(c1, pkt, enqueue)

\* Anti-replay protection
HandleReplay(c, pkt, enqueue) ==
    LET ds == GrowDetectors(c.replay_detector, pkt.epoch, c.replay_protection_window)
        r  == check(ds[pkt.epoch + 1], pkt.sequence_number)
        c1 == [c EXCEPT !.replay_detector = [ds EXCEPT ![pkt.epoch + 1] = r.d]]
    IN  IF ~r.ok
        THEN Incoming(c1, FALSE, None, None)
        ELSE HandleDecrypt(c1, pkt, enqueue)

\* an epoch validation that lets only the records of remote_epoch through
handle_incoming_packet_strict(c, pkt, enqueue) ==
    LET epoch == c.remote_epoch
    IN  IF ~pkt.hdr_ok
        THEN Incoming(c, FALSE, None, None)
        ELSE IF pkt.epoch > epoch
             THEN IF pkt.epoch > epoch + 1
                  THEN Incoming(c, FALSE, None, None)
                  ELSE Incoming(QueueEncrypted(c, pkt, enqueue), FALSE, None, None)
             ELSE IF pkt.epoch < epoch
                  THEN Incoming(c, FALSE, None, None)
                  ELSE HandleReplay(c, pkt, enqueue)

handle_incoming_packet(c, pkt, enqueue) ==
    LET epoch == c.remote_epoch
    IN  IF ~pkt.hdr_ok
        THEN Incoming(c, FALSE, None, None)
        ELSE IF pkt.epoch > epoch
             THEN IF pkt.epoch > epoch + 1
                  THEN Incoming(c, FALSE, None, None)
                  ELSE Incoming(QueueEncrypted(c, pkt, enqueue), FALSE, None, None)
             ELSE HandleReplay(c, pkt, enqueue)

\* The alert read_and_buffer and handle_queued_packets put on the outgoing queue.
PushAlert(c, a) ==
    [c EXCEPT !.outgoing_packets =
        Append(@, AlertPacket(c.local_epoch, is_handshake_completed(c),
                              a.alert_level, a.alert_description))]

\* A mutant of IsFatalOrClose: only the level of the alert is looked at.
IsFatalOrClose_level(a) == a.alert_level = "Fatal"

IsFatalOrClose(a) == a.alert_level = "Fatal" \/ a.alert_description = "CloseNotify"

\* The loop of read_and_buffer (set_rx) and of handle_queued_packets (not set_rx)
\* over the records `pkts`.
RECURSIVE HandleRecords(_, _, _, _)
HandleRecords(c, pkts, enqueue, set_rx) ==
    IF pkts = << >> THEN Ret(c, "Ok", 0)
    ELSE LET r  == handle_incoming_packet(c, Head(pkts), enqueue)
             c1 == IF IsSome(r.alert) THEN PushAlert(r.c, Unwrap(r.alert)) ELSE r.c
         IN  IF IsSome(r.alert) /\ IsFatalOrClose(Unwrap(r.alert))
             THEN Ret(c1, "ErrAlertFatalOrClose", 0)
             ELSE IF IsSome(r.err)
                  THEN Ret(c1, Unwrap(r.err), 0)
                  ELSE HandleRecords(IF r.hs /\ set_rx
                                     THEN [c1 EXCEPT !.handshake_rx = TRUE] ELSE c1,
                                     Tail(pkts), enqueue, set_rx)

\* a mutant of read_and_buffer: the connection is closed when the peer has sent
\* a fatal alert or a CloseNotify
read_and_buffer_closing(c, buf) ==
    LET r == HandleRecords(c, buf, TRUE, TRUE)
    IN  IF r.ret = "ErrAlertFatalOrClose"
        THEN Ret([r.c EXCEPT !.closed = TRUE], r.ret, r.val)
        ELSE r

\* `buf` is the datagram as unpack_datagram splits it: a sequence of records.
read_and_buffer(c, buf) == HandleRecords(c, buf, TRUE, TRUE)

\* compact_raw_packets: the records that fit under the MTU together go into one
\* datagram.  `current_combined_raw_packet` is the datagram being filled.
RECURSIVE CompactLoop(_, _, _, _)
CompactLoop(raw_packets, maximum_transmission_unit, combined_raw_packets, current_combined_raw_packet) ==
    IF raw_packets = << >>
    THEN Append(combined_raw_packets, current_combined_raw_packet)
    ELSE LET raw_packet == Head(raw_packets)
         IN  IF /\ current_combined_raw_packet # << >>
                /\ Len(current_combined_raw_packet) + Len(raw_packet)
                       >= maximum_transmission_unit
             THEN CompactLoop(Tail(raw_packets), maximum_transmission_unit,
                              Append(combined_raw_packets, current_combined_raw_packet),
                              raw_packet)
             ELSE CompactLoop(Tail(raw_packets), maximum_transmission_unit,
                              combined_raw_packets,
                              current_combined_raw_packet \o raw_packet)

\* A mutant of compact_raw_packets: a datagram is closed when the next record
\* would make it longer than the MTU.
compact_raw_packets_filling(raw_packets, maximum_transmission_unit) ==
    CompactLoop(raw_packets, maximum_transmission_unit + 1, << >>, << >>)

compact_raw_packets(raw_packets, maximum_transmission_unit) ==
    CompactLoop(raw_packets, maximum_transmission_unit, << >>, << >>)

\* A mutant of handle_queued_packets: the records are read from the queue and left
\* in it.
handle_queued_packets_keeping(c) ==
    IF is_handshake_completed(c)
    THEN HandleRecords(c, c.incoming_encrypted_packets, FALSE, FALSE)
    ELSE Ret(c, "Ok", 0)

handle_queued_packets(c) ==
    IF is_handshake_completed(c)
    THEN HandleRecords([c EXCEPT !.incoming_encrypted_packets = << >>],
                       c.incoming_encrypted_packets, FALSE, FALSE)
    ELSE Ret(c, "Ok", 0)

----------------------------------------------------------------------------
\* The outbound path.  A record handed to the transport is
\*   [content, epoch, sequence_number, encrypted, message_sequence,
\*    fragment_offset, fragment_length].

RawRecord(p, seq, cipher, offset, length) ==
    [content |-> p.content, epoch |-> p.epoch, sequence_number |-> seq,
     encrypted |-> p.should_encrypt /\ cipher, message_sequence |-> p.message_sequence,
     fragment_offset |-> offset, fragment_length |-> length]

\* while lsn.len() <= epoch { lsn.push(0) }
RECURSIVE GrowCounters(_, _)
GrowCounters(lsn, epoch) ==
    IF Len(lsn) <= epoch THEN GrowCounters(Append(lsn, U64(0, 0)), epoch) ELSE lsn

\* the counter is read and left as it is
NextSequenceNumber_stuck(lsn, epoch) ==
    LET l == GrowCounters(lsn, epoch)
    IN  [lsn |-> l, seq |-> l[epoch + 1]]

\* lsn[epoch] += 1; lsn[epoch] - 1
NextSequenceNumber(lsn, epoch) ==
    LET l == GrowCounters(lsn, epoch)
        n == U64Inc(l[epoch + 1])
    IN  [lsn |-> [l EXCEPT ![epoch + 1] = n], seq |-> U64Dec(n)]

\* What process_packet and process_handshake_packet give: the counters after them,
\* the error if any, the raw records.
Processed(lsn, err, raw) == [lsn |-> lsn, err |-> err, raw |-> raw]

\* seq >= MAX_SEQUENCE_NUMBER in the place of seq > MAX_SEQUENCE_NUMBER
process_packet_early(lsn, cipher, p) ==
    LET a == NextSequenceNumber(lsn, p.epoch)
    IN  IF ~U64Gt(MAX_SEQUENCE_NUMBER, a.seq)
        THEN Processed(a.lsn, Some("ErrSequenceNumberOverflow"), << >>)
        ELSE Processed(a.lsn, None, << RawRecord(p, a.seq, cipher, 0, 0) >>)

process_packet(lsn, cipher, p) ==
    LET a == NextSequenceNumber(lsn, p.epoch)
    IN  IF U64Gt(a.seq, MAX_SEQUENCE_NUMBER)
        THEN Processed(a.lsn, Some("ErrSequenceNumberOverflow"), << >>)
        ELSE Processed(a.lsn, None, << RawRecord(p, a.seq, cipher, 0, 0) >>)

\* A handshake message: the fields of its header that go into every fragment, and
\* `body`, the bytes handshake_message.marshal gives.
Handshake(handshake_type, length, message_sequence, body) ==
    [handshake_type |-> handshake_type, length |-> length,
     message_sequence |-> message_sequence, body |-> body]

\* the handshake message of a packet of the model, which follows the length of the
\* body and not its bytes
HandshakeOf(p) ==
    Handshake(p.content, p.body_len, p.message_sequence, [i \in 1 .. p.body_len |-> 0])

\* A mutant of split_bytes: the bytes are given back in one piece.
split_bytes_whole(bytes, split_len) ==
    IF bytes = << >> THEN << >> ELSE << bytes >>

\* split_bytes: the pieces bytes[i..j], i stepping by split_len
RECURSIVE split_bytes(_, _)
split_bytes(bytes, split_len) ==
    IF bytes = << >> THEN << >>
    ELSE LET j == IF split_len > Len(bytes) THEN Len(bytes) ELSE split_len
         IN  << SubSeq(bytes, 1, j) >>
                 \o split_bytes(SubSeq(bytes, j + 1, Len(bytes)), split_len)

\* The loop of fragment_handshake: the header of each fragment and its content.
\* (`as u32` leaves an offset and a length as they are: the body of a handshake
\* message is shorter than 2^24 bytes.)
RECURSIVE FragmentOffsets(_, _, _)
FragmentOffsets(h, content_fragments, offset) ==
    IF content_fragments = << >> THEN << >>
    ELSE LET content_fragment == Head(content_fragments)
         IN  << [handshake_type |-> h.handshake_type,
                 length |-> h.length,
                 message_sequence |-> h.message_sequence,
                 fragment_offset |-> offset,
                 fragment_length |-> Len(content_fragment),
                 body |-> content_fragment] >>
                 \o FragmentOffsets(h, Tail(content_fragments),
                                    offset + Len(content_fragment))

fragment_handshake(maximum_transmission_unit, h) ==
    LET content_fragments == split_bytes(h.body, maximum_transmission_unit)
    IN  FragmentOffsets(h,
                        IF content_fragments = << >> THEN << << >> >> ELSE content_fragments,
                        0)

\* The loop of process_handshake_packet over the fragments.
RECURSIVE ProcessFragments(_, _, _, _, _)
ProcessFragments(lsn, cipher, p, frags, raw) ==
    IF frags = << >> THEN Processed(lsn, None, raw)
    ELSE LET a == NextSequenceNumber(lsn, p.epoch)
             f == Head(frags)
         IN  IF U64Gt(a.seq, MAX_SEQUENCE_NUMBER)
             THEN Processed(a.lsn, Some("ErrSequenceNumberOverflow"), << >>)
             ELSE ProcessFragments(a.lsn, cipher, p, Tail(frags),
                      Append(raw, RawRecord(p, a.seq, cipher,
                                            f.fragment_offset, f.fragment_length)))

process_handshake_packet(lsn, cipher, maximum_transmission_unit, p) ==
    ProcessFragments(lsn, cipher, p,
                     fragment_handshake(maximum_transmission_unit, HandshakeOf(p)), << >>)

\* The loop of handle_outgoing_packets over the packets.
RECURSIVE ProcessPackets(_, _, _, _, _)
ProcessPackets(lsn, cipher, mtu, pkts, raw) ==
    IF pkts = << >> THEN Processed(lsn, None, raw)
    ELSE LET p == Head(pkts)
             r == IF p.content = "Handshake"
                  THEN process_handshake_packet(lsn, cipher, mtu, p)
                  ELSE process_packet(lsn, cipher, p)
         IN  IF IsSome(r.err) THEN Processed(r.lsn, r.err, << >>)
             ELSE ProcessPackets(r.lsn, cipher, mtu, Tail(pkts), raw \o r.raw)

\* handle_outgoing_packets on the packets of the outgoing queue: val is what is
\* sent, nothing when a packet fails.
handle_outgoing_packets(c, pkts) ==
    LET r  == ProcessPackets(c.local_sequence_number, c.cipher_initialized,
                             MaximumTransmissionUnit, pkts, << >>)
        c1 == [c EXCEPT !.local_sequence_number = r.lsn, !.outgoing_packets = << >>]
    IN  IF IsSome(r.err) THEN Ret(c1, Unwrap(r.err), << >>) ELSE Ret(c1, "Ok", r.raw)

----------------------------------------------------------------------------
\* The inputs the environment chooses from.

\* what write() is given
Payloads == { << 1 >>, << 2, 3 >> }

\* the sequence number a resumed session continues epoch 1 from: a fresh one, and
\* the last ones before the 48-bit field is exhausted
Seeds == { U64(0, 0), U64Dec(MAX_SEQUENCE_NUMBER), MAX_SEQUENCE_NUMBER }

\* DTLSConn::new's initial_state
InitialStates == { None } \cup { Some(ResumedState(seed)) : seed \in Seeds }

EpochsIn == 0 .. MaxEpochIn

\* The records the peer sends: handshake, ChangeCipherSpec and application data
\* records of each epoch.  The third sequence number of the application data of
\* epoch 1 lies a whole replay window after the first two.  A record that fails to
\* decrypt is dropped before its content is looked at, so one content stands for
\* all; so does one record for all whose header does not parse.
FarSequenceNumber == DEFAULT_REPLAY_PROTECTION_WINDOW + 1

RecordsIn ==
    { Record(FALSE, 0, 0, TRUE, "Undecodable", NoAlert, << >>),
      Record(TRUE, 1, 0, FALSE, "ApplicationData", NoAlert, << 1 >>) }
    \cup { Record(TRUE, e, 0, TRUE, "Handshake", NoAlert, << >>) : e \in EpochsIn }
    \cup { Record(TRUE, e, 1, TRUE, "ChangeCipherSpec", NoAlert, << >>) :
              e \in EpochsIn \ {MaxEpochIn} }
    \cup { Record(TRUE, e, 0, TRUE, "ApplicationData", NoAlert, << 1 >>) : e \in EpochsIn }
    \cup { Record(TRUE, 1, 0, TRUE, "ApplicationData", NoAlert, << 2, 3 >>),
           Record(TRUE, 1, 1, TRUE, "ApplicationData", NoAlert, << 2, 3 >>),
           Record(TRUE, 1, FarSequenceNumber, TRUE, "ApplicationData", NoAlert, << 1 >>) }

Datagrams == { << r >> : r \in RecordsIn }

\* the datagrams of a peer that only sends handshake messages in the clear
HandshakeDatagrams ==
    { << Record(TRUE, 0, s, TRUE, "Handshake", NoAlert, << >>) >> : s \in {0, 1} }

\* the datagram of a peer that sends its flights one after the other, each in a
\* handshake record of its own: the one that comes after n of them
FlightDatagrams(n) ==
    { << Record(TRUE, 0, n, TRUE, "Handshake", NoAlert, << >>) >> }

\* The records of the peer of a resumed session that moves on to epoch 2: its
\* ChangeCipherSpec of epoch 1, and records of epoch 2 that come before or after
\* it: application data, one of them twice, and a record whose content does not
\* decode.
QueuedRecords ==
    { Record(TRUE, 1, 1, TRUE, "ChangeCipherSpec", NoAlert, << >>),
      Record(TRUE, 2, 0, TRUE, "ApplicationData", NoAlert, << 1 >>),
      Record(TRUE, 2, 1, TRUE, "ApplicationData", NoAlert, << 2, 3 >>),
      Record(TRUE, 2, 2, TRUE, "Undecodable", NoAlert, << >>) }

QueuedDatagrams == { << r >> : r \in QueuedRecords }

\* What fragment_handshake and compact_raw_packets are given.
MaxBody == 4
MaxMtu == 5
MaxRawPackets == 3

Mtus == 1 .. MaxMtu

\* the byte strings of at most n bytes, of two byte values
Bytes(n) == UNION { [1 .. k -> {1, 2}] : k \in 0 .. n }

\* handshake messages of every body of at most MaxBody bytes, the length of the
\* header that of the body
HandshakesOut ==
    { Handshake(t, Len(b), m, b) :
        t \in {"ClientHello", "Finished"}, m \in {0, 1}, b \in Bytes(MaxBody) }

\* the records handle_outgoing_packets has made: at least one, none of them empty
RawPackets == { << 1 >>, << 2, 2 >>, << 3, 3, 3 >> }

RawPacketsOut == UNION { [1 .. k -> RawPackets] : k \in 1 .. MaxRawPackets }

\* The records of a peer that sends alerts, and application data in epoch 0.  The
\* second application data record of epoch 0 has the sequence number of the fatal
\* alert.
TerminatingAlerts ==
    { Record(TRUE, 0, 0, TRUE, "Alert", Alert("Fatal", "HandshakeFailure"), << >>),
      Record(TRUE, 0, 1, TRUE, "Alert", Alert("Warning", "CloseNotify"), << >>),
      Record(TRUE, 1, 0, TRUE, "Alert", Alert("Fatal", "CloseNotify"), << >>) }

EarlyApplicationData ==
    { Record(TRUE, 0, 3, TRUE, "ApplicationData", NoAlert, << 1 >>),
      Record(TRUE, 0, 0, TRUE, "ApplicationData", NoAlert, << 2, 3 >>) }

\* the records that follow in the same datagram
FollowingRecords ==
    { Record(TRUE, 1, 1, TRUE, "ApplicationData", NoAlert, << 1 >>),
      Record(TRUE, 0, 4, TRUE, "Handshake", NoAlert, << >>) }

AlertDatagrams ==
    { << r >> : r \in TerminatingAlerts \cup EarlyApplicationData \cup FollowingRecords
                         \cup { Record(TRUE, 0, 2, TRUE, "Alert",
                                       Alert("Warning", "NoRenegotiation"), << >>) } }
    \cup { << r, f >> : r \in TerminatingAlerts \cup EarlyApplicationData,
                        f \in FollowingRecords }

----------------------------------------------------------------------------
\* The operations, as actions.

\* What the last operation was and what it gave: its name, its result, and the
\* values that go with it, each in a field of its own type:
\*   val    a length (write: the bytes taken; handle_outgoing_packets: the records sent)
\*   state  handshake: the FSM state the iteration started in
\*   timer  handle_timeout: current_retransmit_timer before the call
\*   data   read: the payload returned
\*   buf    read_and_buffer: the datagram
\*   was_closed  close: closed before the call
\*   answer handshake: what generate() or parse() answered in the iteration
Op(name, ret) ==
    [name |-> name, ret |-> ret, val |-> 0, state |-> "-", timer |-> None,
     data |-> << >>, buf |-> << >>, was_closed |-> FALSE, answer |-> NoAnswer]

\* No call is running and the outgoing queue has room.
Idle ==
    /\ ~hs_active
    /\ Len(conn.outgoing_packets) <= MaxOutgoing

\* DtlsConnectionInboundHandler::transport_active: conn.handshake() is entered.
TransportActive ==
    /\ Idle
    /\ hs_active' = TRUE
    /\ hs_spins' = 0
    /\ op' = [Op("handshake", "running") EXCEPT !.state = "enter"]
    /\ UNCHANGED <<conn, now, wire, received, endpoint_closed, agent, ice_op, call>>

\* A mutant of the iteration: the completion branch is taken whenever the FSM is
\* in Finished.
handshake_iteration_again(c, o, t) ==
    IF c.current_handshake_state = "Finished"
    THEN [c |-> [c EXCEPT !.handshake_completed = TRUE], ret |-> "Ok", returns |-> TRUE]
    ELSE IF c.current_handshake_state \notin {"Preparing", "Sending", "Waiting"}
    THEN [c |-> c, ret |-> "ErrInvalidFsmTransition", returns |-> TRUE]
    ELSE LET r == CASE c.current_handshake_state = "Preparing" -> prepare(c, o)
                    [] c.current_handshake_state = "Sending" -> send(c, t)
                    [] c.current_handshake_state = "Waiting" -> wait(c, o)
         IN  IF r.ret # "Ok"
             THEN [c |-> r.c, ret |-> r.ret, returns |-> TRUE]
             ELSE [c |-> [r.c EXCEPT !.current_handshake_state = r.val],
                   ret |-> "running", returns |-> FALSE]

\* A mutant of the iteration: the completion branch sets the flag and the loop
\* goes on.
handshake_iteration_on(c, o, t) ==
    IF c.current_handshake_state = "Finished" /\ ~is_handshake_completed(c)
    THEN [c |-> [c EXCEPT !.handshake_completed = TRUE], ret |-> "running", returns |-> FALSE]
    ELSE IF c.current_handshake_state \notin {"Preparing", "Sending", "Waiting", "Finished"}
    THEN [c |-> c, ret |-> "ErrInvalidFsmTransition", returns |-> TRUE]
    ELSE LET r == CASE c.current_handshake_state = "Preparing" -> prepare(c, o)
                    [] c.current_handshake_state = "Sending" -> send(c, t)
                    [] c.current_handshake_state = "Waiting" -> wait(c, o)
                    [] c.current_handshake_state = "Finished" -> finish(c, o)
         IN  IF r.ret # "Ok"
             THEN [c |-> r.c, ret |-> r.ret, returns |-> TRUE]
             ELSE [c |-> [r.c EXCEPT !.current_handshake_state = r.val],
                   ret |-> "running", returns |-> FALSE]

\* One iteration of the loop of DTLSConn::handshake, `o` what the flight answers
\* when the iteration asks it (generate in Preparing, parse in Waiting and Finished).
handshake_iteration(c, o, t) ==
    IF c.current_handshake_state = "Finished" /\ ~is_handshake_completed(c)
    THEN [c |-> [c EXCEPT !.handshake_completed = TRUE], ret |-> "Ok", returns |-> TRUE]
    ELSE IF c.current_handshake_state \notin {"Preparing", "Sending", "Waiting", "Finished"}
    THEN [c |-> c, ret |-> "ErrInvalidFsmTransition", returns |-> TRUE]
    ELSE LET r == CASE c.current_handshake_state = "Preparing" -> prepare(c, o)
                    [] c.current_handshake_state = "Sending" -> send(c, t)
                    [] c.current_handshake_state = "Waiting" -> wait(c, o)
                    [] c.current_handshake_state = "Finished" -> finish(c, o)
         IN  IF r.ret # "Ok"
             THEN [c |-> r.c, ret |-> r.ret, returns |-> TRUE]
             ELSE [c |-> [r.c EXCEPT !.current_handshake_state = r.val],
                   ret |-> "running", returns |-> FALSE]

\* The answers the flight can give in this iteration.
FlightOutcomes(c) ==
    CASE c.current_handshake_state = "Preparing" -> GenerateOutcomes(c.current_flight)
      [] c.current_handshake_state = "Waiting" /\ c.handshake_rx ->
             ParseOutcomes(c.current_flight)
      [] /\ c.current_handshake_state = "Finished" /\ is_handshake_completed(c)
         /\ c.handshake_rx ->
             ParseOutcomes(c.current_flight)
      [] OTHER -> { NoAnswer }

\* An iteration that neither returns nor changes the FSM state is a spin; the model
\* follows MaxSpins of them in a row.
HandshakeStep ==
    /\ hs_active
    /\ Len(conn.outgoing_packets) <= MaxOutgoing
    /\ conn.current_handshake_state = "Preparing"
           => conn.handshake_send_sequence < MaxSendSequence
    /\ \E o \in FlightOutcomes(conn) :
         LET r    == handshake_iteration(conn, o, now)
             spin == ~r.returns
                        /\ r.c.current_handshake_state = conn.current_handshake_state
         IN  /\ spin => hs_spins < MaxSpins
             /\ conn' = r.c
             /\ hs_active' = ~r.returns
             /\ hs_spins' = IF spin THEN hs_spins + 1 ELSE 0
             /\ op' = [Op("handshake", r.ret) EXCEPT !.state = conn.current_handshake_state,
                                                     !.answer = o]
    /\ UNCHANGED <<now, wire, received, endpoint_closed, agent, ice_op, call>>

\* A mutant of handshake_timeout: the timer sends the FSM back to Preparing.
handshake_timeout_preparing(c, t) ==
    IF c.current_handshake_state = "Waiting"
    THEN IF c.retransmit
         THEN [c |-> [c EXCEPT !.current_handshake_state = "Preparing"], enters |-> TRUE]
         ELSE [c |-> [c EXCEPT !.current_retransmit_timer = Some(t + c.retransmit_interval)],
               enters |-> TRUE]
    ELSE IF c.current_handshake_state = "Finished"
         THEN [c |-> [c EXCEPT !.current_handshake_state = "Sending"], enters |-> TRUE]
         ELSE [c |-> c, enters |-> FALSE]

\* A mutant of handshake_timeout: in Finished the timer is let pass.
handshake_timeout_waiting(c, t) ==
    IF c.current_handshake_state = "Waiting"
    THEN IF c.retransmit
         THEN [c |-> [c EXCEPT !.current_handshake_state = "Sending"], enters |-> TRUE]
         ELSE [c |-> [c EXCEPT !.current_retransmit_timer = Some(t + c.retransmit_interval)],
               enters |-> TRUE]
    ELSE [c |-> c, enters |-> FALSE]

\* DTLSConn::handshake_timeout up to its call of handshake(): the connection and
\* whether handshake() is entered.
handshake_timeout(c, t) ==
    IF c.current_handshake_state = "Waiting"
    THEN IF c.retransmit
         THEN [c |-> [c EXCEPT !.current_handshake_state = "Sending"], enters |-> TRUE]
         ELSE [c |-> [c EXCEPT !.current_retransmit_timer = Some(t + c.retransmit_interval)],
               enters |-> TRUE]
    ELSE IF c.current_handshake_state = "Finished"
         THEN [c |-> [c EXCEPT !.current_handshake_state = "Sending"], enters |-> TRUE]
         ELSE [c |-> c, enters |-> FALSE]

\* The closure of DtlsConnectionInboundHandler::handle_timeout
handle_timeout(c, t) ==
    LET armed == IsSome(c.current_retransmit_timer)
        c1    == [c EXCEPT !.current_retransmit_timer = None]
    IN  IF armed /\ ~is_handshake_completed(c1)
        THEN handshake_timeout(c1, t)
        ELSE [c |-> c1, enters |-> FALSE]

HandleTimeout ==
    /\ Idle
    /\ LET r == handle_timeout(conn, now)
       IN  /\ conn' = r.c
           /\ hs_active' = r.enters
           /\ op' = [Op("handle_timeout", IF r.enters THEN "running" ELSE "Ok")
                       EXCEPT !.timer = conn.current_retransmit_timer]
    /\ hs_spins' = 0
    /\ UNCHANGED <<now, wire, received, endpoint_closed, agent, ice_op, call>>

\* DTLSConn::handshake_timeout called on the connection at rest, in whatever state
\* its FSM is.
HandshakeTimeout ==
    /\ Idle
    /\ LET r == handshake_timeout(conn, now)
       IN  /\ conn' = r.c
           /\ hs_active' = r.enters
           /\ op' = [Op("handshake_timeout", IF r.enters THEN "running" ELSE "Ok")
                       EXCEPT !.state = conn.current_handshake_state]
    /\ hs_spins' = 0
    /\ UNCHANGED <<now, wire, received, endpoint_closed, agent, ice_op, call>>

\* What the last call of fragment_handshake or compact_raw_packets was given and
\* what it returned:
\*   mtu  maximum_transmission_unit
\*   h    fragment_handshake: the handshake message
\*   raw_packets  compact_raw_packets: the records
\*   returned  the call has returned
\*   out  the fragments, or the datagrams, once it has
Call(name, mtu, h, raw_packets) ==
    [name |-> name, mtu |-> mtu, h |-> h, raw_packets |-> raw_packets,
     returned |-> FALSE, out |-> << >>]

NoHandshake == Handshake("-", 0, 0, << >>)

NoCall == Call("-", 0, NoHandshake, << >>)

\* fragment_handshake runs on what it was called with
FragmentHandshake ==
    /\ call.name = "fragment_handshake"
    /\ ~call.returned
    /\ call' = [call EXCEPT !.returned = TRUE,
                            !.out = fragment_handshake(call.mtu, call.h)]
    /\ UNCHANGED <<conn, hs_active, hs_spins, now, op, wire, received, endpoint_closed,
                   agent, ice_op>>

\* compact_raw_packets runs on what it was called with
CompactRawPackets ==
    /\ call.name = "compact_raw_packets"
    /\ ~call.returned
    /\ call' = [call EXCEPT !.returned = TRUE,
                            !.out = compact_raw_packets(call.raw_packets, call.mtu)]
    /\ UNCHANGED <<conn, hs_active, hs_spins, now, op, wire, received, endpoint_closed,
                   agent, ice_op>>

\* Time passes.
Tick ==
    /\ ~hs_active
    /\ now < MaxTime
    /\ now' = now + 1
    /\ op' = Op("tick", "Ok")
    /\ UNCHANGED <<conn, hs_active, hs_spins, wire, received, endpoint_closed, agent, ice_op, call>>

Read ==
    /\ Idle
    /\ LET r == read(conn)
       IN  /\ conn' = r.c
           /\ op' = [Op("read", r.ret) EXCEPT !.data = r.val]
    /\ UNCHANGED <<hs_active, hs_spins, now, wire, received, endpoint_closed, agent, ice_op, call>>

\* write on a payload of `payloads`
Write(payloads) ==
    /\ Idle
    /\ \E p \in payloads :
         LET r == write(conn, p)
         IN  /\ conn' = r.c
             /\ op' = [Op("write", r.ret) EXCEPT !.val = r.val]
    /\ UNCHANGED <<hs_active, hs_spins, now, wire, received, endpoint_closed, agent, ice_op, call>>

\* close
Close ==
    /\ Idle
    /\ LET r == close(conn)
       IN  /\ conn' = r.c
           /\ op' = [Op("close", r.ret) EXCEPT !.was_closed = conn.closed]
    /\ UNCHANGED <<hs_active, hs_spins, now, wire, received, endpoint_closed, agent, ice_op, call>>

\* read_and_buffer on a datagram of `datagrams`
ReadAndBuffer(datagrams) ==
    /\ Idle
    /\ Len(conn.incoming_decrypted_packets) < MaxIncoming
    /\ Len(conn.incoming_encrypted_packets) < MaxIncoming
    /\ received < MaxReceived
    /\ received' = received + 1
    /\ \E buf \in datagrams :
         LET r == read_and_buffer(conn, buf)
         IN  /\ conn' = r.c
             /\ op' = [Op("read_and_buffer", r.ret) EXCEPT !.buf = buf]
    /\ UNCHANGED <<hs_active, hs_spins, now, wire, endpoint_closed, agent, ice_op, call>>

\* Endpoint::read (dtls/src/endpoint is not under src/): the datagram goes to the
\* connection of its peer address, and the error of the connection is the error
\* of the endpoint.
endpoint_read(c, buf) == read_and_buffer(c, buf)

\* RTCDtlsTransport::handle_transmit on a DTLS datagram of `datagrams`: try_read,
\* and dtls_endpoint.close() when its error is ErrAlertFatalOrClose.
HandleTransmit(datagrams) ==
    /\ Idle
    /\ Len(conn.incoming_decrypted_packets) < MaxIncoming
    /\ Len(conn.incoming_encrypted_packets) < MaxIncoming
    /\ received < MaxAlertsIn
    /\ received' = received + 1
    /\ \E buf \in datagrams :
         LET r == endpoint_read(conn, buf)
         IN  /\ conn' = r.c
             /\ endpoint_closed' = (endpoint_closed \/ r.ret = "ErrAlertFatalOrClose")
             /\ op' = [Op("handle_transmit", r.ret) EXCEPT !.buf = buf]
    /\ UNCHANGED <<hs_active, hs_spins, now, wire, agent, ice_op, call>>

HandleQueuedPackets ==
    /\ Idle
    /\ Len(conn.incoming_decrypted_packets) < MaxIncoming
    /\ LET r == handle_queued_packets(conn)
       IN  /\ conn' = r.c
           /\ op' = Op("handle_queued_packets", r.ret)
    /\ UNCHANGED <<hs_active, hs_spins, now, wire, received, endpoint_closed, agent, ice_op, call>>

\* The owner of the connection takes the outgoing queue through
\* handle_outgoing_packets.
HandleOutgoingPackets ==
    /\ ~hs_active
    /\ conn.outgoing_packets # << >>
    /\ \A e \in DOMAIN conn.local_sequence_number :
         ~U64Gt(conn.local_sequence_number[e], U64(LimbBase, MaxOverflow - 1))
    /\ LET r == handle_outgoing_packets(conn, conn.outgoing_packets)
       IN  /\ Len(wire) + Len(r.val) <= MaxWire
           /\ conn' = r.c
           /\ wire' = wire \o r.val
           /\ op' = [Op("handle_outgoing_packets", r.ret) EXCEPT !.val = Len(r.val)]
    /\ UNCHANGED <<hs_active, hs_spins, now, received, endpoint_closed, agent, ice_op, call>>

----------------------------------------------------------------------------
\* The ICE agent: Agent of rtc-ice/src/agent/mod.rs.  AgentInternal of
\* ice/src/agent/agent_internal.rs is the same code with the candidates kept by
\* network type; the model has one network type.
\*
\* A candidate is its address (ip and port); the candidate objects are shared
\* (Rc) by the candidate lists and the pairs, so their last_received lives in one
\* map of the agent, by address.  Code that src/ does not hold is modelled from
\* the specification and marked so: the selector (ping_candidate,
\* handle_success_response, handle_binding_request), CandidatePair::new,
\* Candidate::seen and the value of MAX_BINDING_REQUEST_TIMEOUT.

\* the addresses STUN traffic comes from; only some become remote candidates
Addrs == {"R1", "R2"}

\* the candidates of the agent's own sockets
LocalAddrs == {"L1"}

\* agent_config.rs (not under src/): 500 ms, the clock ticking every 250 ms
MAX_BINDING_REQUEST_TIMEOUT == 2

\* CandidatePair::new(local, remote, is_controlling)
CandidatePair(local, remote, is_controlling) ==
    [local |-> local, remote |-> remote,
     state |-> "Waiting", nominated |-> FALSE, binding_request_count |-> 0]

\* A STUN message:
\*   method, class         m.typ
\*   username              Option: the USERNAME attribute
\*   integrity             Option: the key MESSAGE-INTEGRITY was computed with
\*   ice_controlling, ice_controlled, use_candidate   the attribute is there
\*   transaction_id
Message(method, class, username, integrity, controlling, controlled, use, id) ==
    [method |-> method, class |-> class, username |-> username, integrity |-> integrity,
     ice_controlling |-> controlling, ice_controlled |-> controlled,
     use_candidate |-> use, transaction_id |-> id]

NoMessage == Message("-", "-", None, None, FALSE, FALSE, FALSE, 0)

\* Agent::new, after its restart(config.local_ufrag, config.local_pwd)
agent_new(is_controlling, max_binding_requests, disconnected_timeout, failed_timeout) ==
    [ is_controlling |-> is_controlling,
      connection_state |-> "New",
      ufrag_pwd |-> [local_ufrag |-> "luf", local_pwd |-> "lpwd0123456789ab",
                     remote_ufrag |-> "", remote_pwd |-> ""],
      local_candidates |-> << >>,
      remote_candidates |-> << >>,
      pending_binding_requests |-> << >>,
      checklist |-> << >>,
      \* agent_conn.selected_pair: the place of the pair in the checklist
      selected_pair |-> None,
      max_binding_requests |-> max_binding_requests,
      disconnected_timeout |-> disconnected_timeout,
      failed_timeout |-> failed_timeout,
      \* config.keepalive_interval; 0 means never
      keepalive_interval |-> 0,
      \* Candidate::last_received of the remote candidate objects
      last_received |-> [r \in Addrs |-> 0],
      \* Candidate::last_sent of the local candidate objects, kept for the sends of
      \* check_keepalive, which alone reads it
      last_sent |-> [l \in LocalAddrs |-> 0],
      \* history, not a field of Agent: the messages send_stun wrote, counted
      sent |-> 0,
      \* the transaction ids given out: TransactionId::new() gives a new one each time
      transaction_ids |-> 0 ]

\* a mutant of delete_all_candidates: the pairs and the selection go with the
\* candidates
delete_all_candidates_pairs(a) ==
    [a EXCEPT !.local_candidates = << >>, !.remote_candidates = << >>,
              !.checklist = << >>, !.selected_pair = None]

\* delete_all_candidates
delete_all_candidates(a) ==
    [a EXCEPT !.local_candidates = << >>, !.remote_candidates = << >>]

\* a mutant of update_connection_state: a closed agent stays closed
update_connection_state_absorbing(a, new_state) ==
    IF a.connection_state # new_state /\ a.connection_state # "Closed"
    THEN [(IF new_state = "Failed" THEN delete_all_candidates(a) ELSE a)
             EXCEPT !.connection_state = new_state]
    ELSE a

\* update_connection_state
update_connection_state(a, new_state) ==
    IF a.connection_state # new_state
    THEN [(IF new_state = "Failed" THEN delete_all_candidates(a) ELSE a)
             EXCEPT !.connection_state = new_state]
    ELSE a

\* a mutant of close: the candidates are kept
agent_close_keeping(a) == Ret(update_connection_state(a, "Closed"), "Ok", 0)

\* Agent::close
agent_close(a) ==
    Ret(update_connection_state(delete_all_candidates(a), "Closed"), "Ok", 0)

\* set_selected_pair(Some(p)), p the place of the pair in the checklist
set_selected_pair(a, p) ==
    update_connection_state([a EXCEPT !.checklist[p].nominated = TRUE,
                                      !.selected_pair = Some(p)],
                            "Connected")

\* a mutant of set_remote_credentials: the ufrag is stored before the pwd is looked at
set_remote_credentials_eager(a, remote_ufrag, remote_pwd) ==
    IF remote_ufrag = "" THEN Ret(a, "ErrRemoteUfragEmpty", 0)
    ELSE IF remote_pwd = ""
         THEN Ret([a EXCEPT !.ufrag_pwd.remote_ufrag = remote_ufrag], "ErrRemotePwdEmpty", 0)
         ELSE Ret([a EXCEPT !.ufrag_pwd.remote_ufrag = remote_ufrag,
                            !.ufrag_pwd.remote_pwd = remote_pwd], "Ok", 0)

\* generate_ufrag() and generate_pwd() (rand/mod.rs is not under src/): random
\* strings of 16 and of 32 characters
generate_ufrag == "gufr0123456789ab"

generate_pwd == "gpwd0123456789abcdefghijklmnopqr"

\* Agent::restart; start() changes nothing the model holds
restart(a, ufrag, pwd) ==
    LET u == IF ufrag = "" THEN generate_ufrag ELSE ufrag
        p == IF pwd = "" THEN generate_pwd ELSE pwd
    IN  IF Len(u) * 8 < 24 THEN Ret(a, "ErrLocalUfragInsufficientBits", 0)
        ELSE IF Len(p) * 8 < 128 THEN Ret(a, "ErrLocalPwdInsufficientBits", 0)
        ELSE LET a1 == delete_all_candidates(
                          [a EXCEPT !.ufrag_pwd = [local_ufrag |-> u, local_pwd |-> p,
                                                   remote_ufrag |-> "", remote_pwd |-> ""],
                                    !.pending_binding_requests = << >>,
                                    !.checklist = << >>,
                                    \* set_selected_pair(None)
                                    !.selected_pair = None])
             IN  Ret(IF a1.connection_state # "New"
                     THEN update_connection_state(a1, "Checking") ELSE a1,
                     "Ok", 0)

\* set_remote_credentials
set_remote_credentials(a, remote_ufrag, remote_pwd) ==
    IF remote_ufrag = "" THEN Ret(a, "ErrRemoteUfragEmpty", 0)
    ELSE IF remote_pwd = "" THEN Ret(a, "ErrRemotePwdEmpty", 0)
         ELSE Ret([a EXCEPT !.ufrag_pwd.remote_ufrag = remote_ufrag,
                            !.ufrag_pwd.remote_pwd = remote_pwd], "Ok", 0)

\* start_connectivity_checks; start(), request_connectivity_check() and
\* connectivity_checks() change nothing the model holds
start_connectivity_checks(a, is_controlling, remote_ufrag, remote_pwd) ==
    LET r == set_remote_credentials(a, remote_ufrag, remote_pwd)
    IN  IF r.ret # "Ok" THEN r
        ELSE Ret(update_connection_state([r.c EXCEPT !.is_controlling = is_controlling],
                                         "Checking"),
                 "Ok", 0)

\* add_pair for each candidate of `others`
RECURSIVE AddPairs(_, _, _, _)
AddPairs(a, c, others, c_is_local) ==
    IF others = << >> THEN a
    ELSE LET p == IF c_is_local THEN CandidatePair(c, Head(others), a.is_controlling)
                  ELSE CandidatePair(Head(others), c, a.is_controlling)
         IN  AddPairs([a EXCEPT !.checklist = Append(@, p)], c, Tail(others), c_is_local)

Contains(cands, c) == \E i \in DOMAIN cands : cands[i] = c

\* a mutant of add_local_candidate: a candidate the agent holds is added again
add_local_candidate_again(a, c) ==
    Ret(AddPairs([a EXCEPT !.local_candidates = Append(@, c)],
                 c, a.remote_candidates, TRUE),
        "Ok", 0)

\* add_local_candidate
add_local_candidate(a, c) ==
    IF Contains(a.local_candidates, c) THEN Ret(a, "Ok", 0)
    ELSE Ret(AddPairs([a EXCEPT !.local_candidates = Append(@, c)],
                      c, a.remote_candidates, TRUE),
             "Ok", 0)

\* add_remote_candidate; `mdns`: the candidate is a host candidate whose address
\* ends in ".local"
add_remote_candidate(a, c, mdns) ==
    IF mdns THEN Ret(a, "ErrMulticastDnsNotSupported", 0)
    ELSE IF Contains(a.remote_candidates, c) THEN Ret(a, "Ok", 0)
    ELSE Ret(AddPairs([a EXCEPT !.remote_candidates = Append(@, c)],
                      c, a.local_candidates, FALSE),
             "Ok", 0)

\* find_remote_candidate
find_remote_candidate(a, addr) ==
    IF Contains(a.remote_candidates, addr) THEN Some(addr) ELSE None

\* find_pair: the place of the pair in the checklist
find_pair(a, local, remote) ==
    LET ps == { i \in DOMAIN a.checklist :
                  a.checklist[i].local = local /\ a.checklist[i].remote = remote }
    IN  IF ps = {} THEN None ELSE Some(CHOOSE i \in ps : \A j \in ps : i <= j)

\* a mutant of invalidate_pending_binding_requests: an entry whose age is the
\* timeout stays
invalidate_pending_binding_requests_inclusive(a, filter_time) ==
    [a EXCEPT !.pending_binding_requests =
        SelectSeq(@, LAMBDA b : IF filter_time >= b.timestamp
                                THEN filter_time - b.timestamp <= MAX_BINDING_REQUEST_TIMEOUT
                                ELSE TRUE)]

\* invalidate_pending_binding_requests(filter_time): an entry stays when its age
\* is below the timeout, or when filter_time is before its timestamp
invalidate_pending_binding_requests(a, filter_time) ==
    [a EXCEPT !.pending_binding_requests =
        SelectSeq(@, LAMBDA b : IF filter_time >= b.timestamp
                                THEN filter_time - b.timestamp < MAX_BINDING_REQUEST_TIMEOUT
                                ELSE TRUE)]

\* a mutant of handle_inbound_binding_success: the expired entries are not taken out
handle_inbound_binding_success_late(a, id, t) ==
    LET q  == a.pending_binding_requests
        is == { i \in DOMAIN q : q[i].transaction_id = id }
    IN  IF is = {} THEN [a |-> a, found |-> None]
        ELSE LET i == CHOOSE i \in is : \A j \in is : i <= j
             IN  [a |-> [a EXCEPT !.pending_binding_requests =
                                      SubSeq(q, 1, i - 1) \o SubSeq(q, i + 1, Len(q))],
                  found |-> Some(q[i])]

\* a mutant of handle_inbound_binding_success: the entry that is matched stays
handle_inbound_binding_success_keeping(a, id, t) ==
    LET a1 == invalidate_pending_binding_requests(a, t)
        q  == a1.pending_binding_requests
        is == { i \in DOMAIN q : q[i].transaction_id = id }
    IN  IF is = {} THEN [a |-> a1, found |-> None]
        ELSE [a |-> a1, found |-> Some(q[CHOOSE i \in is : \A j \in is : i <= j])]

\* handle_inbound_binding_success(id): [a: the agent after it, found: Option]
handle_inbound_binding_success(a, id, t) ==
    LET a1 == invalidate_pending_binding_requests(a, t)
        q  == a1.pending_binding_requests
        is == { i \in DOMAIN q : q[i].transaction_id = id }
    IN  IF is = {} THEN [a |-> a1, found |-> None]
        ELSE LET i == CHOOSE i \in is : \A j \in is : i <= j
             IN  [a |-> [a1 EXCEPT !.pending_binding_requests =
                                       SubSeq(q, 1, i - 1) \o SubSeq(q, i + 1, Len(q))],
                  found |-> Some(q[i])]

\* send_stun: local.write_to(&msg.raw, remote)
send_stun(a, m, remote) == [a EXCEPT !.sent = @ + 1]

\* send_binding_request
send_binding_request(a, m, remote, t) ==
    LET a1 == invalidate_pending_binding_requests(a, t)
        a2 == [a1 EXCEPT !.pending_binding_requests =
                   Append(@, [timestamp |-> t, transaction_id |-> m.transaction_id,
                              destination |-> remote,
                              is_use_candidate |-> m.use_candidate])]
    IN  send_stun(a2, m, remote)

\* send_binding_success
send_binding_success(a, m, remote) ==
    send_stun(a, [m EXCEPT !.class = "SuccessResponse",
                           !.integrity = Some(a.ufrag_pwd.local_pwd)], remote)

\* The selector's ping_candidate (agent_selector.rs is not under src/): a Binding
\* request with a new transaction id, USERNAME remote_ufrag:local_ufrag and
\* MESSAGE-INTEGRITY under remote_pwd, through send_binding_request.
\* `use`: the request nominates (USE-CANDIDATE).
ping_candidate(a, remote, use, t) ==
    LET id == a.transaction_ids + 1
        m  == Message("Binding", "Request",
                      Some(<< a.ufrag_pwd.remote_ufrag, a.ufrag_pwd.local_ufrag >>),
                      Some(a.ufrag_pwd.remote_pwd),
                      a.is_controlling, ~a.is_controlling, use, id)
    IN  send_binding_request([a EXCEPT !.transaction_ids = id], m, remote, t)

\* a mutant of PingLoop: a pair is not marked Failed, it is pinged again
RECURSIVE PingLoop_unbounded(_, _, _)
PingLoop_unbounded(a, i, pairs) ==
    IF i > Len(a.checklist) THEN [a |-> a, pairs |-> pairs]
    ELSE LET p  == a.checklist[i]
             a1 == IF p.state = "Waiting"
                   THEN [a EXCEPT !.checklist[i].state = "InProgress"] ELSE a
         IN  IF p.state \notin {"Waiting", "InProgress"}
             THEN PingLoop_unbounded(a, i + 1, pairs)
             ELSE PingLoop_unbounded([a1 EXCEPT !.checklist[i].binding_request_count = @ + 1],
                                     i + 1, Append(pairs, p.remote))

\* The loop of ping_all_candidates over the checklist from pair i on; `pairs` are
\* the pairs to ping.
RECURSIVE PingLoop(_, _, _)
PingLoop(a, i, pairs) ==
    IF i > Len(a.checklist) THEN [a |-> a, pairs |-> pairs]
    ELSE LET p  == a.checklist[i]
             a1 == IF p.state = "Waiting"
                   THEN [a EXCEPT !.checklist[i].state = "InProgress"] ELSE a
         IN  IF p.state \notin {"Waiting", "InProgress"}
             THEN PingLoop(a, i + 1, pairs)
             ELSE IF p.binding_request_count > a.max_binding_requests
                  THEN PingLoop([a1 EXCEPT !.checklist[i].state = "Failed"], i + 1, pairs)
                  ELSE PingLoop([a1 EXCEPT !.checklist[i].binding_request_count = @ + 1],
                                i + 1, Append(pairs, p.remote))

RECURSIVE PingCandidates(_, _, _)
PingCandidates(a, pairs, t) ==
    IF pairs = << >> THEN a
    ELSE PingCandidates(ping_candidate(a, Head(pairs), FALSE, t), Tail(pairs), t)

\* a mutant of ping_all_candidates: the pairs are marked and counted, no request
\* is sent
ping_all_candidates_silent(a, t) == PingLoop(a, 1, << >>).a

\* ping_all_candidates
ping_all_candidates(a, t) ==
    LET r == PingLoop(a, 1, << >>)
    IN  PingCandidates(r.a, r.pairs, t)

\* Candidate::seen(false) (candidate_base.rs is not under src/): last_received is now
seen(a, remote, t) == [a EXCEPT !.last_received[remote] = t]

\* The selector's handle_success_response: the transaction id is looked up in the
\* pending requests; when it is not there the response is discarded; otherwise
\* the pair is marked Succeeded and, when the request had USE-CANDIDATE,
\* nominated and selected.
handle_success_response(a, m, local, remote, t) ==
    LET r == handle_inbound_binding_success(a, m.transaction_id, t)
    IN  IF ~IsSome(r.found) THEN r.a
        ELSE IF Unwrap(r.found).destination # remote THEN r.a
        ELSE LET p == find_pair(r.a, local, remote)
             IN  IF ~IsSome(p) THEN r.a
                 ELSE LET a1 == [r.a EXCEPT !.checklist[Unwrap(p)].state = "Succeeded"]
                      IN  IF Unwrap(r.found).is_use_candidate /\ ~IsSome(a1.selected_pair)
                          THEN set_selected_pair(a1, Unwrap(p))
                          ELSE a1

\* The selector's handle_binding_request: a success response is sent; when the
\* request has USE-CANDIDATE and the agent is controlled, the pair is nominated
\* and selected.
handle_binding_request(a, m, local, remote) ==
    LET a1 == send_binding_success(a, m, remote)
        p  == find_pair(a1, local, remote)
    IN  IF m.use_candidate /\ ~a1.is_controlling /\ IsSome(p) /\ ~IsSome(a1.selected_pair)
        THEN set_selected_pair(a1, Unwrap(p))
        ELSE a1

\* assert_inbound_username
assert_inbound_username(m, expected_username) ==
    IsSome(m.username) /\ Unwrap(m.username) = expected_username

\* assert_inbound_message_integrity
assert_inbound_message_integrity(m, key) ==
    IsSome(m.integrity) /\ Unwrap(m.integrity) = key

\* a mutant of handle_inbound: the role attributes are looked at after the
\* credentials, and a conflict makes the agent give way
handle_inbound_switching(a, m, local, remote, t) ==
    IF m.method # "Binding" \/ m.class \notin {"SuccessResponse", "Request", "Indication"}
    THEN a
    ELSE IF a.is_controlling /\ m.ice_controlling
         THEN [a EXCEPT !.is_controlling = FALSE]
         ELSE IF ~a.is_controlling /\ m.ice_controlled
              THEN [a EXCEPT !.is_controlling = TRUE]
              ELSE a

\* a mutant of handle_inbound: a request is answered whatever its credentials
handle_inbound_trusting(a, m, local, remote, t) ==
    LET remote_candidate == find_remote_candidate(a, remote)
    IN  IF m.class = "Request" /\ IsSome(remote_candidate)
        THEN seen(handle_binding_request(a, m, local, remote), remote, t)
        ELSE a

\* handle_inbound
handle_inbound(a, m, local, remote, t) ==
    IF m.method # "Binding" \/ m.class \notin {"SuccessResponse", "Request", "Indication"}
    THEN a
    ELSE IF a.is_controlling /\ m.ice_controlling THEN a
    ELSE IF a.is_controlling /\ m.use_candidate THEN a
    ELSE IF ~a.is_controlling /\ m.ice_controlled THEN a
    ELSE LET remote_candidate == find_remote_candidate(a, remote)
         IN  IF m.class = "SuccessResponse"
             THEN IF ~assert_inbound_message_integrity(m, a.ufrag_pwd.remote_pwd) THEN a
                  ELSE IF IsSome(remote_candidate)
                       THEN seen(handle_success_response(a, m, local, remote, t), remote, t)
                       ELSE a
             ELSE IF m.class = "Request"
             THEN IF ~assert_inbound_username(m, << a.ufrag_pwd.local_ufrag,
                                                    a.ufrag_pwd.remote_ufrag >>) THEN a
                  ELSE IF ~assert_inbound_message_integrity(m, a.ufrag_pwd.local_pwd) THEN a
                  ELSE IF IsSome(remote_candidate)
                       THEN seen(handle_binding_request(a, m, local, remote), remote, t)
                       ELSE a
             ELSE IF IsSome(remote_candidate) THEN seen(a, remote, t) ELSE a

\* Candidate::write_to of the local candidate (candidate_base.rs is not under
\* src/): last_sent is now
write_to(a, local, t) == [a EXCEPT !.last_sent[local] = t]

\* a mutant of check_keepalive: a request goes out only when nothing was sent and
\* nothing was received within the interval
check_keepalive_both(a, t) ==
    IF ~IsSome(a.selected_pair) THEN a
    ELSE LET selected_pair == a.checklist[Unwrap(a.selected_pair)]
             last_sent     == t - a.last_sent[selected_pair.local]
             last_received == t - a.last_received[selected_pair.remote]
         IN  IF /\ a.keepalive_interval # 0
                /\ last_sent > a.keepalive_interval
                /\ last_received > a.keepalive_interval
             THEN write_to(ping_candidate(a, selected_pair.remote, FALSE, t),
                           selected_pair.local, t)
             ELSE a

\* check_keepalive; the request of ping_candidate leaves through write_to of the
\* local candidate of the pair
check_keepalive(a, t) ==
    IF ~IsSome(a.selected_pair) THEN a
    ELSE LET selected_pair == a.checklist[Unwrap(a.selected_pair)]
             last_sent     == t - a.last_sent[selected_pair.local]
             last_received == t - a.last_received[selected_pair.remote]
         IN  IF /\ a.keepalive_interval # 0
                /\ \/ last_sent > a.keepalive_interval
                   \/ last_received > a.keepalive_interval
             THEN write_to(ping_candidate(a, selected_pair.remote, FALSE, t),
                           selected_pair.local, t)
             ELSE a

\* validate_selected_pair
validate_selected_pair(a, t) ==
    IF ~IsSome(a.selected_pair) THEN a
    ELSE LET disconnected_time ==
                 t - a.last_received[a.checklist[Unwrap(a.selected_pair)].remote]
             a1 == IF a.failed_timeout # 0
                   THEN [a EXCEPT !.failed_timeout = @ + a.disconnected_timeout] ELSE a
         IN  IF a1.failed_timeout # 0 /\ disconnected_time > a1.failed_timeout
             THEN update_connection_state(a1, "Failed")
             ELSE IF a1.disconnected_timeout # 0
                         /\ disconnected_time > a1.disconnected_timeout
                  THEN update_connection_state(a1, "Disconnected")
                  ELSE update_connection_state(a1, "Connected")

----------------------------------------------------------------------------
\* The operations of the agent, as actions.

\* What the last operation of the agent was, what it returned and what it was
\* called with: the message and its source (handle_inbound), the role and the
\* credentials (start_connectivity_checks), the candidate (add_*_candidate);
\* for start_connectivity_checks, close and restart, the connection state it
\* was called in; for restart, the ufrag and the pwd.
IceOp(name, ret) ==
    [name |-> name, ret |-> ret, m |-> NoMessage, remote |-> "-",
     is_controlling |-> FALSE, remote_ufrag |-> "", remote_pwd |-> "", c |-> "-",
     state |-> "-", ufrag |-> "", pwd |-> ""]

dtls_vars == <<conn, hs_active, hs_spins, op, wire, received, endpoint_closed>>

AddLocalCandidate ==
    \E c \in LocalAddrs :
       LET r == add_local_candidate(agent, c)
       IN  /\ Len(agent.checklist) < MaxPairs
           /\ agent' = r.c
           /\ ice_op' = [IceOp("add_local_candidate", r.ret) EXCEPT !.c = c]
           /\ UNCHANGED <<dtls_vars, now, call>>

\* add_remote_candidate on a candidate of `addrs`
AddRemoteCandidate(addrs) ==
    \E c \in addrs, mdns \in BOOLEAN :
       LET r == add_remote_candidate(agent, c, mdns)
       IN  /\ Len(agent.checklist) < MaxPairs
           /\ agent' = r.c
           /\ ice_op' = [IceOp("add_remote_candidate", r.ret) EXCEPT !.c = c]
           /\ UNCHANGED <<dtls_vars, now, call>>

\* the credentials the signalling hands over
RemoteUfrags == {"", "ru"}
RemotePwds == {"", "rp"}

\* start_connectivity_checks on credentials of `ufrags` and `pwds`
StartConnectivityChecks(ufrags, pwds) ==
    \E is_controlling \in BOOLEAN, remote_ufrag \in ufrags, remote_pwd \in pwds :
       LET r == start_connectivity_checks(agent, is_controlling, remote_ufrag, remote_pwd)
       IN  /\ agent' = r.c
           /\ ice_op' = [IceOp("start_connectivity_checks", r.ret)
                            EXCEPT !.is_controlling = is_controlling,
                                   !.remote_ufrag = remote_ufrag,
                                   !.remote_pwd = remote_pwd,
                                   !.state = agent.connection_state]
           /\ UNCHANGED <<dtls_vars, now, call>>

\* contact_candidates of the selector, while no pair is selected
PingAllCandidates ==
    /\ agent.sent < MaxSent
    /\ agent' = ping_all_candidates(agent, now)
    /\ ice_op' = IceOp("ping_all_candidates", "Ok")
    /\ UNCHANGED <<dtls_vars, now, call>>

\* contact_candidates of the selector, a pair selected
ValidateSelectedPair ==
    /\ agent.failed_timeout < MaxFailedTimeout
    /\ agent' = validate_selected_pair(agent, now)
    /\ ice_op' = IceOp("validate_selected_pair",
                       IF IsSome(agent.selected_pair) THEN "true" ELSE "false")
    /\ UNCHANGED <<dtls_vars, now, call>>

\* contact_candidates of the selector, a pair selected: check_keepalive
CheckKeepalive ==
    /\ agent.sent < MaxSent
    /\ agent' = check_keepalive(agent, now)
    /\ ice_op' = IceOp("check_keepalive", "Ok")
    /\ UNCHANGED <<dtls_vars, now, call>>

\* the credentials restart is called with: a ufrag or a pwd that is too short,
\* and those the agent was made with
LocalUfrags == {"lu", "luf"}
LocalPwds == {"lpwd", "lpwd0123456789ab"}

Restart ==
    \E ufrag \in LocalUfrags, pwd \in LocalPwds :
       LET r == restart(agent, ufrag, pwd)
       IN  /\ agent' = r.c
           /\ ice_op' = [IceOp("restart", r.ret) EXCEPT !.state = agent.connection_state,
                                                        !.ufrag = ufrag, !.pwd = pwd]
           /\ UNCHANGED <<dtls_vars, now, call>>

\* the messages of `messages`, each from each address of `addrs`
From(messages, addrs) == { [m |-> m, remote |-> r] : m \in messages, r \in addrs }

\* handle_inbound on a message of `inbound` that came to a local candidate
HandleInbound(inbound) ==
    \E i \in inbound, local \in LocalAddrs :
       /\ Contains(agent.local_candidates, local)
       /\ agent.sent < MaxSent
       /\ agent' = handle_inbound(agent, i.m, local, i.remote, now)
       /\ ice_op' = [IceOp("handle_inbound", "Ok") EXCEPT !.m = i.m, !.remote = i.remote]
       /\ UNCHANGED <<dtls_vars, now, call>>

AgentClose ==
    LET r == agent_close(agent)
    IN  /\ agent' = r.c
        /\ ice_op' = [IceOp("close", r.ret) EXCEPT !.state = agent.connection_state]
        /\ UNCHANGED <<dtls_vars, now, call>>

IceTick ==
    /\ now < MaxIceTime
    /\ now' = now + 1
    /\ ice_op' = IceOp("tick", "Ok")
    /\ UNCHANGED <<dtls_vars, agent, call>>

\* send_binding_request on a Binding request with a new transaction id, with or
\* without USE-CANDIDATE, to a remote candidate of the agent
SendBindingRequest ==
    \E local \in LocalAddrs, remote \in Addrs, use \in BOOLEAN :
       LET id == agent.transaction_ids + 1
           m  == Message("Binding", "Request",
                         Some(<< agent.ufrag_pwd.remote_ufrag, agent.ufrag_pwd.local_ufrag >>),
                         Some(agent.ufrag_pwd.remote_pwd),
                         agent.is_controlling, ~agent.is_controlling, use, id)
       IN  /\ Contains(agent.local_candidates, local)
           /\ Contains(agent.remote_candidates, remote)
           /\ agent.sent < MaxSent
           /\ agent' = send_binding_request([agent EXCEPT !.transaction_ids = id],
                                            m, remote, now)
           /\ ice_op' = [IceOp("send_binding_request", "Ok") EXCEPT !.m = m, !.remote = remote]
           /\ UNCHANGED <<dtls_vars, now, call>>

\* handle_inbound_binding_success on a transaction id of `ids`
HandleInboundBindingSuccess(ids) ==
    \E id \in ids :
       LET r == handle_inbound_binding_success(agent, id, now)
       IN  /\ agent' = r.a
           /\ ice_op' = [IceOp("handle_inbound_binding_success",
                               IF IsSome(r.found) THEN "Some" ELSE "None")
                            EXCEPT !.m = [NoMessage EXCEPT !.transaction_id = id],
                                   !.remote = IF IsSome(r.found)
                                              THEN Unwrap(r.found).destination ELSE "-"]
           /\ UNCHANGED <<dtls_vars, now, call>>

\* The messages a peer sends: Binding requests with and without the right
\* USERNAME and MESSAGE-INTEGRITY, success responses, indications, and messages
\* handle_inbound has no use for.  The peer of a controlled agent sets
\* ICE-CONTROLLING, the peer of a controlling one ICE-CONTROLLED; a peer in
\* role conflict sets the other.  The requests with other credentials come from
\* a controlling peer and ask for nomination; the responses with another
\* MESSAGE-INTEGRITY come from a controlled one.
Usernames == { None, Some(<<"luf", "ru">>), Some(<<"luf", "xx">>) }

Requests ==
    { Message("Binding", "Request", Some(<<"luf", "ru">>), Some("lpwd0123456789ab"), c, ~c, use, 0) :
        c \in BOOLEAN, use \in BOOLEAN }
    \cup { Message("Binding", "Request", u, i, TRUE, FALSE, TRUE, 0) :
              u \in Usernames, i \in {Some("lpwd0123456789ab"), Some("xx")} }

Responses ==
    { Message("Binding", "SuccessResponse", None, Some("rp"), c, ~c, FALSE, id) :
        c \in BOOLEAN, id \in 0 .. MaxTransactionId }
    \cup { Message("Binding", "SuccessResponse", None, Some("lpwd0123456789ab"), FALSE, TRUE, FALSE, id) :
              id \in 0 .. MaxTransactionId }

Indications ==
    { Message("Binding", "Indication", None, None, c, ~c, FALSE, 0) : c \in BOOLEAN }

Unhandled ==
    { Message("Binding", "ErrorResponse", None, Some("rp"), FALSE, FALSE, FALSE, 1),
      Message("Allocate", "Request", Some(<<"luf", "ru">>), Some("lpwd0123456789ab"), FALSE, FALSE, FALSE, 0) }

Messages == Requests \cup Responses \cup Indications \cup Unhandled

\* The messages of a peer that keeps to the protocol and knows the credentials:
\* the answers to the first requests of the agent, and the nominating request
\* of a controlling peer.
PeerResponses ==
    { Message("Binding", "SuccessResponse", None, Some("rp"), c, ~c, FALSE, id) :
        c \in BOOLEAN, id \in 1 .. 2 }

PeerRequests ==
    { Message("Binding", "Request", Some(<<"luf", "ru">>), Some("lpwd0123456789ab"), TRUE, FALSE, TRUE, 0) }

----------------------------------------------------------------------------
\* The specifications.  Each is the connection under one part of what its owner
\* and its peer can do.

InitWith(initial_states, intervals) ==
    /\ \E is_client \in BOOLEAN, initial_state \in initial_states,
          retransmit_interval \in intervals :
         conn = new(is_client, initial_state, retransmit_interval)
    /\ hs_active = FALSE
    /\ hs_spins = 0
    /\ now = 0
    /\ op = Op("new", "Ok")
    /\ wire = << >>
    /\ received = 0
    /\ endpoint_closed = FALSE
    /\ agent = agent_new(FALSE, 1, 0, 0)
    /\ ice_op = IceOp("new", "Ok")
    /\ call = NoCall

\* Spec: the handshake FSM, the retransmit timer, write and close.  The peer's
\* records are handshake records of epoch 0; the outgoing queue is left to grow.
Init == InitWith({ None, Some(ResumedState(U64(0, 0))) }, {INITIAL_TICKER_INTERVAL})

Next ==
    \/ TransportActive
    \/ HandshakeStep
    \/ HandleTimeout
    \/ Tick
    \/ Write(Payloads)
    \/ Close
    \/ ReadAndBuffer(HandshakeDatagrams)

Spec == Init /\ [][Next]_vars

\* SpecIn: the inbound record path.  The peer sends any record of RecordsIn; the
\* owner reads, and polls the queue of early records.
InitIn == InitWith({ None, Some(ResumedState(U64(0, 0))) }, {INITIAL_TICKER_INTERVAL})

\* the owner has sent the alerts in reply
Drained == Len(conn.outgoing_packets) <= MaxReplies

NextIn ==
    \/ Drained /\ TransportActive
    \/ Drained /\ HandshakeStep
    \/ Drained /\ Read
    \/ Drained /\ ReadAndBuffer(Datagrams)
    \/ Drained /\ HandleQueuedPackets

SpecIn == InitIn /\ [][NextIn]_vars

\* SpecOut: the outbound record path.  Sequence numbers start fresh, or where a
\* resumed session had left them.
InitOut == InitWith(InitialStates, {INITIAL_TICKER_INTERVAL})

NextOut ==
    \/ TransportActive
    \/ HandshakeStep
    \/ Write({ << 1 >> })
    \/ ReadAndBuffer(HandshakeDatagrams)
    \/ HandleOutgoingPackets

SpecOut == InitOut /\ [][NextOut]_vars

\* SpecFsm: the handshake FSM of a new connection through all its flights, the
\* peer sending one handshake record for each.
InitFsm == InitWith({ None }, {INITIAL_TICKER_INTERVAL})

NextFsm ==
    \/ TransportActive
    \/ HandshakeStep
    \/ HandleTimeout
    \/ Tick
    \/ ReadAndBuffer(FlightDatagrams(received))

SpecFsm == InitFsm /\ [][NextFsm]_vars

\* SpecTimeout: the handshake FSM with handshake_timeout called at any time the
\* connection is at rest.
InitTimeout == InitWith({ None }, {INITIAL_TICKER_INTERVAL})

NextTimeout ==
    \/ TransportActive
    \/ HandshakeStep
    \/ HandshakeTimeout
    \/ Tick
    \/ ReadAndBuffer(FlightDatagrams(received))

SpecTimeout == InitTimeout /\ [][NextTimeout]_vars

\* SpecQueued: a resumed session whose peer changes to the next epoch, records of
\* that epoch arriving early; the owner polls the queue of early records.
InitQueued == InitWith({ Some(ResumedState(U64(0, 0))) }, {INITIAL_TICKER_INTERVAL})

NextQueued ==
    \/ Drained /\ TransportActive
    \/ Drained /\ HandshakeStep
    \/ Drained /\ Read
    \/ Drained /\ ReadAndBuffer(QueuedDatagrams)
    \/ Drained /\ HandleQueuedPackets

SpecQueued == InitQueued /\ [][NextQueued]_vars

\* A call of `calls` is to run, the connection standing still.
InitCall(calls) ==
    /\ conn = new(TRUE, None, INITIAL_TICKER_INTERVAL)
    /\ hs_active = FALSE
    /\ hs_spins = 0
    /\ now = 0
    /\ op = Op("new", "Ok")
    /\ wire = << >>
    /\ received = 0
    /\ endpoint_closed = FALSE
    /\ agent = agent_new(FALSE, 1, 0, 0)
    /\ ice_op = IceOp("new", "Ok")
    /\ call \in calls

\* SpecFragment: fragment_handshake on the handshake messages of HandshakesOut.
InitFragment ==
    InitCall({ Call("fragment_handshake", mtu, h, << >>) : mtu \in Mtus, h \in HandshakesOut })

NextFragment == FragmentHandshake

SpecFragment == InitFragment /\ [][NextFragment]_vars

\* SpecCompact: compact_raw_packets on the records of RawPacketsOut.
InitCompact ==
    InitCall({ Call("compact_raw_packets", mtu, NoHandshake, r) :
                  mtu \in Mtus, r \in RawPacketsOut })

NextCompact == CompactRawPackets

SpecCompact == InitCompact /\ [][NextCompact]_vars

\* SpecLive: a new connection under its handler, with a peer whose flights all
\* arrive and flights that never fail: generate() and parse() answer Ok.  The
\* handler runs every call it has started, the pipeline calls transport_active
\* and handle_timeout, and the datagrams of the peer are read whenever the
\* handler is free to read.
HandshakeStepOk == HandshakeStep /\ op'.answer.ok

NextLive ==
    \/ TransportActive
    \/ HandshakeStepOk
    \/ HandleTimeout
    \/ Tick
    \/ ReadAndBuffer(FlightDatagrams(received))

SpecLive ==
    /\ InitFsm
    /\ [][NextLive]_vars
    /\ WF_vars(TransportActive)
    /\ WF_vars(HandshakeStepOk)
    /\ WF_vars(HandleTimeout)
    /\ WF_vars(ReadAndBuffer(FlightDatagrams(received)))

\* SpecAlert: the connection under RTCDtlsTransport, its peer sending alerts and
\* early application data.
InitAlert == InitWith({ None, Some(ResumedState(U64(0, 0))) }, {INITIAL_TICKER_INTERVAL})

NextAlert ==
    \/ TransportActive
    \/ HandshakeStep
    \/ Read
    \/ HandleTransmit(AlertDatagrams)

SpecAlert == InitAlert /\ [][NextAlert]_vars

\* The agent as Agent::new gives it, the connection of the other specifications
\* standing still.
InitAgent(max_binding_requests, timeouts) ==
    /\ conn = new(TRUE, None, INITIAL_TICKER_INTERVAL)
    /\ hs_active = FALSE
    /\ hs_spins = 0
    /\ now = 0
    /\ op = Op("new", "Ok")
    /\ wire = << >>
    /\ received = 0
    /\ endpoint_closed = FALSE
    /\ ice_op = IceOp("new", "Ok")
    /\ call = NoCall
    /\ \E is_controlling \in BOOLEAN, m \in max_binding_requests, t \in timeouts :
         agent = agent_new(is_controlling, m, t.disconnected_timeout, t.failed_timeout)

\* config.disconnected_timeout and config.failed_timeout, in ticks; 0: never
Timeouts ==
    { [disconnected_timeout |-> 0, failed_timeout |-> 0],
      [disconnected_timeout |-> 0, failed_timeout |-> 1],
      [disconnected_timeout |-> 1, failed_timeout |-> 1] }

\* SpecIcePing: the checklist and the selector's pings.  The agent is given the
\* credentials; its peer answers the requests, in time.
InitIcePing ==
    InitAgent(0 .. MaxMaxBindingRequests, {[disconnected_timeout |-> 0, failed_timeout |-> 0]})

NextIcePing ==
    \/ AddLocalCandidate
    \/ AddRemoteCandidate(Addrs)
    \/ StartConnectivityChecks({"ru"}, {"rp"})
    \/ PingAllCandidates
    \/ HandleInbound(From(PeerResponses, Addrs))

SpecIcePing == InitIcePing /\ [][NextIcePing]_vars

\* SpecIce: the life of the ICE agent under its owner (a remote candidate, the
\* credentials, the selector's timer, close), its peer controlling and
\* nominating the pair.
InitIce == InitAgent({MaxMaxBindingRequests}, Timeouts)

NextIce ==
    \/ AddLocalCandidate
    \/ AddRemoteCandidate({"R1"})
    \/ StartConnectivityChecks(RemoteUfrags, RemotePwds)
    \/ ValidateSelectedPair
    \/ HandleInbound(From(PeerRequests, Addrs))
    \/ AgentClose
    \/ IceTick

SpecIce == InitIce /\ [][NextIce]_vars

\* SpecIceIn: the inbound STUN path.  The agent, configured with
\* max_binding_requests 1 and no timeouts, has one remote candidate and is given
\* the credentials; the peer sends any message of Messages, and from the other
\* address come messages with the credentials of the session.
InitIceIn == InitAgent({1}, {[disconnected_timeout |-> 0, failed_timeout |-> 0]})

NextIceIn ==
    \/ AddLocalCandidate
    \/ AddRemoteCandidate({"R1"})
    \/ StartConnectivityChecks({"ru"}, {"rp"})
    \/ PingAllCandidates
    \/ HandleInbound(From(Messages, {"R1"}) \cup From(PeerRequests \cup PeerResponses, {"R2"}))
    \/ IceTick

SpecIceIn == InitIceIn /\ [][NextIceIn]_vars

\* SpecIcePending: the pending binding requests.  Requests go out to the remote
\* candidate, the clock goes on, and transaction ids come back: those of the
\* requests, more than once, and one the agent never gave out.
InitIcePending == InitAgent({1}, {[disconnected_timeout |-> 0, failed_timeout |-> 0]})

NextIcePending ==
    \/ AddLocalCandidate
    \/ AddRemoteCandidate({"R1"})
    \/ SendBindingRequest
    \/ HandleInboundBindingSuccess(0 .. MaxSent)
    \/ IceTick

SpecIcePending == InitIcePending /\ [][NextIcePending]_vars

\* SpecIceKeepalive: the keepalive.  The agent, controlled, is configured with a
\* keepalive_interval and has its candidates and the credentials; it has no
\* selected pair, or the pair its peer has just nominated.  The clock goes on,
\* the selector calls check_keepalive, and indications come from the peer.
InitIceKeepalive ==
    /\ conn = new(TRUE, None, INITIAL_TICKER_INTERVAL)
    /\ hs_active = FALSE
    /\ hs_spins = 0
    /\ now = 0
    /\ op = Op("new", "Ok")
    /\ wire = << >>
    /\ received = 0
    /\ endpoint_closed = FALSE
    /\ ice_op = IceOp("new", "Ok")
    /\ call = NoCall
    /\ \E keepalive_interval \in 0 .. MaxKeepaliveInterval, nominated \in BOOLEAN :
          LET a0 == [agent_new(FALSE, 1, 0, 0)
                       EXCEPT !.keepalive_interval = keepalive_interval]
              a1 == add_remote_candidate(add_local_candidate(a0, "L1").c, "R1", FALSE).c
              a2 == start_connectivity_checks(a1, FALSE, "ru", "rp").c
          IN  agent = IF nominated
                      THEN CHOOSE a \in { handle_inbound(a2, m, "L1", "R1", 0) :
                                             m \in PeerRequests } : TRUE
                      ELSE a2

NextIceKeepalive ==
    \/ CheckKeepalive
    \/ HandleInbound(From(Indications, Addrs))
    \/ IceTick

SpecIceKeepalive == InitIceKeepalive /\ [][NextIceKeepalive]_vars

\* SpecIceRestart: the agent closed, failed and restarted.  Its owner gives it the
\* candidates and the credentials, closes and restarts it; its peer, controlling,
\* nominates the pair and falls silent; the selector's timer pings the pairs and
\* validates the selected pair.
InitIceRestart == InitAgent({1}, {[disconnected_timeout |-> 0, failed_timeout |-> 1]})

NextIceRestart ==
    \/ AddLocalCandidate
    \/ AddRemoteCandidate({"R1"})
    \/ StartConnectivityChecks({"ru"}, {"rp"})
    \/ ~IsSome(agent.selected_pair) /\ agent.pending_binding_requests = << >> /\ PingAllCandidates
    \/ IsSome(agent.selected_pair) /\ ValidateSelectedPair
    \/ HandleInbound(From(PeerRequests, {"R1"}))
    \/ AgentClose
    \/ Restart
    \/ IceTick

SpecIceRestart == InitIceRestart /\ [][NextIceRestart]_vars

\* SpecClosed: a resumed session whose peer sends alerts, one in a datagram,
\* while the owner writes and closes.
InitClosed == InitWith({ Some(ResumedState(U64(0, 0))) }, {INITIAL_TICKER_INTERVAL})

ClosingDatagrams ==
    { << r >> : r \in TerminatingAlerts
                         \cup { Record(TRUE, 1, 2, TRUE, "Alert",
                                       Alert("Warning", "NoRenegotiation"), << >>) } }

NextClosed ==
    \/ TransportActive
    \/ HandshakeStep
    \/ Write({ << 1 >> })
    \/ Close
    \/ ReadAndBuffer(ClosingDatagrams)

SpecClosed == InitClosed /\ [][NextClosed]_vars

----------------------------------------------------------------------------
\* The properties.

\* a is what is left of b after some of its first elements are taken
IsSuffix(a, b) ==
    /\ Len(a) <= Len(b)
    /\ a = SubSeq(b, Len(b) - Len(a) + 1, Len(b))

\* C1.  DTLSConn::write(p): on a closed connection it returns ErrConnClosed; else,
\* while the handshake is not completed, it returns ErrHandshakeInProgress; both
\* leave the outgoing queue as it was.  Otherwise it appends exactly one
\* ApplicationData packet (should_encrypt, the current local epoch, payload p) to
\* the outgoing queue and returns len(p).
C1_WriteContract ==
    [][ op'.name = "write" =>
          IF conn.closed
          THEN /\ op'.ret = "ErrConnClosed"
               /\ conn'.outgoing_packets = conn.outgoing_packets
          ELSE IF ~conn.handshake_completed
          THEN /\ op'.ret = "ErrHandshakeInProgress"
               /\ conn'.outgoing_packets = conn.outgoing_packets
          ELSE /\ op'.ret = "Ok"
               /\ Len(conn'.outgoing_packets) = Len(conn.outgoing_packets) + 1
               /\ SubSeq(conn'.outgoing_packets, 1, Len(conn.outgoing_packets))
                      = conn.outgoing_packets
               /\ LET q == conn'.outgoing_packets[Len(conn'.outgoing_packets)]
                  IN  /\ q.content = "ApplicationData"
                      /\ q.should_encrypt
                      /\ q.epoch = conn.local_epoch
                      /\ q.data \in Payloads
                      /\ op'.val = Len(q.data)
      ]_vars

\* a write of two bytes went through, after earlier packets of the queue
C1_Witness ==
    /\ op.name = "write"
    /\ op.ret = "Ok"
    /\ op.val = 2
    /\ Len(conn.outgoing_packets) > 1

\* C2.  DTLSConn::read() returns None wherever handshake_completed is false, also
\* when application data is buffered; once handshake_completed is true it returns
\* the buffered payloads one per call, in the order they were accepted, and None
\* when the buffer is empty.
C2_ReadContract ==
    [][ /\ op'.name = "read" =>
              IF ~conn.handshake_completed \/ conn.incoming_decrypted_packets = << >>
              THEN op'.ret = "None" /\ conn' = conn
              ELSE /\ op'.ret = "Some"
                   /\ op'.data = Head(conn.incoming_decrypted_packets)
                   /\ conn'.incoming_decrypted_packets
                          = Tail(conn.incoming_decrypted_packets)
        /\ IsSuffix(conn'.incoming_decrypted_packets,
                    [i \in DOMAIN conn'.accepted_records |-> conn'.accepted_records[i].data])
      ]_vars

\* read gave None with a payload in the buffer, the handshake not completed
C2_Witness ==
    /\ op.name = "read"
    /\ op.ret = "None"
    /\ ~conn.handshake_completed
    /\ conn.incoming_decrypted_packets # << >>

\* the Warning CloseNotify alerts of a queue
CloseNotifies(q) ==
    Cardinality({ i \in DOMAIN q : /\ q[i].content = "Alert"
                                   /\ q[i].alert = Alert("Warning", "CloseNotify") })

\* C3.  DTLSConn::close() is idempotent: the first call on a connection not yet
\* closed sets closed and enqueues exactly one Warning CloseNotify alert; every
\* later call enqueues nothing, changes nothing and returns Ok.  (Under Spec the
\* outgoing queue is never taken from and no other operation enqueues a
\* CloseNotify, so the queue holds one CloseNotify exactly when closed is set.)
C3_CloseIdempotent ==
    [][ /\ conn.closed => conn'.closed
        /\ CloseNotifies(conn'.outgoing_packets) = (IF conn'.closed THEN 1 ELSE 0)
        /\ op'.name = "close" =>
              /\ op'.ret = "Ok"
              /\ op'.was_closed = conn.closed
              /\ IF conn.closed
                 THEN conn' = conn
                 ELSE /\ conn'.closed
                      /\ Len(conn'.outgoing_packets) = Len(conn.outgoing_packets) + 1
                      /\ SubSeq(conn'.outgoing_packets, 1, Len(conn.outgoing_packets))
                             = conn.outgoing_packets
                      /\ LET q == conn'.outgoing_packets[Len(conn'.outgoing_packets)]
                         IN  /\ q.content = "Alert"
                             /\ q.alert = Alert("Warning", "CloseNotify")
                             /\ q.epoch = conn.local_epoch
        /\ op'.name # "close" => conn'.closed = conn.closed
      ]_vars

\* close was called on a closed connection
C3_Witness ==
    /\ op.name = "close"
    /\ op.was_closed
    /\ conn.closed
    /\ CloseNotifies(conn.outgoing_packets) = 1

\* C4.  DTLSConn::handshake() always returns: it steps until Finished is reached
\* for the first time, where it returns Ok with handshake_completed set, or until
\* the FSM is in Waiting with no inbound handshake flag pending, where it returns
\* instead of stepping again.
C4_HandshakeReturns ==
    [][ /\ hs_active /\ conn.current_handshake_state = "Finished"
                     /\ ~conn.handshake_completed
            => ~hs_active' /\ conn'.handshake_completed /\ op'.ret = "Ok"
        /\ hs_active /\ conn.current_handshake_state = "Waiting" /\ ~conn.handshake_rx
            => ~hs_active'
      ]_vars

\* C5.  The handler's handle_timeout(now) re-enters the handshake FSM only when a
\* retransmit timer is armed, its deadline is reached (deadline <= now) and the
\* handshake is not completed; a call before the armed deadline performs no FSM
\* step and leaves the timer armed.
C5_TimeoutWhenDue ==
    [][ op'.name = "handle_timeout" =>
          LET timer == conn.current_retransmit_timer
          IN  /\ hs_active' => /\ IsSome(timer)
                               /\ Unwrap(timer) <= now
                               /\ ~conn.handshake_completed
              /\ IsSome(timer) /\ Unwrap(timer) > now
                    => /\ ~hs_active'
                       /\ conn'.current_handshake_state = conn.current_handshake_state
                       /\ conn'.current_retransmit_timer = timer
      ]_vars

\* C6 (as the code has it).  Epoch validation in handle_incoming_packet, for a
\* record of epoch e with remote_epoch r: e = r + 1 is queued in
\* incoming_encrypted_packets and not processed now; e > r + 1 is discarded;
\* e = r is accepted for processing; e < r is not discarded: like e = r it goes
\* on to the replay detector of epoch e.
C6_EpochValidationAmended ==
    [][ op'.name = "read_and_buffer" /\ op'.buf[1].hdr_ok =>
          LET pkt == op'.buf[1]
              e   == pkt.epoch
              r   == conn.remote_epoch
          IN  /\ e = r + 1 =>
                    /\ conn' = [conn EXCEPT !.incoming_encrypted_packets = Append(@, pkt)]
                    /\ op'.ret = "Ok"
              /\ e > r + 1 => conn' = conn /\ op'.ret = "Ok"
              /\ e <= r => Len(conn'.replay_detector) > e
      ]_vars

\* C6 (as stated).  e = r is accepted for processing; e = r + 1 is queued in
\* incoming_encrypted_packets and not processed now; e > r + 1 is discarded;
\* e < r is discarded: it reaches neither the replay detector, nor decryption,
\* nor any buffer.
C6_EpochValidation ==
    [][ op'.name = "read_and_buffer" /\ op'.buf[1].hdr_ok =>
          LET pkt == op'.buf[1]
              e   == pkt.epoch
              r   == conn.remote_epoch
          IN  /\ e = r + 1 =>
                    /\ conn' = [conn EXCEPT !.incoming_encrypted_packets = Append(@, pkt)]
                    /\ op'.ret = "Ok"
              /\ e > r + 1 => conn' = conn /\ op'.ret = "Ok"
              /\ e = r => Len(conn'.replay_detector) > e
              /\ e < r => conn' = conn /\ op'.ret = "Ok"
      ]_vars

\* the first datagram of a resumed session was a handshake record of epoch 0,
\* remote_epoch being 1: it went through the replay detector of epoch 0 and
\* raised handshake_rx
C6_Witness ==
    /\ received = 1
    /\ op.name = "read_and_buffer"
    /\ op.buf[1].content = "Handshake"
    /\ op.buf[1].epoch = 0
    /\ conn.remote_epoch = 1
    /\ conn.handshake_rx
    /\ Len(conn.replay_detector) = 1

\* the (epoch, sequence_number) pairs of a history of accepted records
Pairs(log) == { << log[i].epoch, log[i].sequence_number >> : i \in DOMAIN log }

\* C7.  Replay protection: once an ApplicationData record of some (epoch,
\* sequence_number) was accepted and its payload buffered, a later record of the
\* same (epoch, sequence_number) is discarded silently (no alert, no error) and
\* its payload is not added to what read() returns; every (epoch,
\* sequence_number) is accepted at most once.
C7_ReplayProtection ==
    [][ /\ \A i, j \in DOMAIN conn'.accepted_records :
              /\ conn'.accepted_records[i].epoch = conn'.accepted_records[j].epoch
              /\ conn'.accepted_records[i].sequence_number
                     = conn'.accepted_records[j].sequence_number
              => i = j
        /\ op'.name = "read_and_buffer" =>
              LET pkt == op'.buf[1]
              IN  /\ pkt.hdr_ok
                  /\ pkt.content = "ApplicationData"
                  /\ << pkt.epoch, pkt.sequence_number >> \in Pairs(conn.accepted_records)
                  => /\ op'.ret = "Ok"
                     /\ conn'.incoming_decrypted_packets = conn.incoming_decrypted_packets
                     /\ conn'.accepted_records = conn.accepted_records
                     /\ conn'.outgoing_packets = conn.outgoing_packets
      ]_vars

\* a record came with the (epoch, sequence_number) of an accepted one and another
\* payload, and only the payload accepted first is in the history
C7_Witness ==
    /\ op.name = "read_and_buffer"
    /\ op.ret = "Ok"
    /\ op.buf[1].content = "ApplicationData"
    /\ \E i \in DOMAIN conn.accepted_records :
          /\ conn.accepted_records[i].epoch = op.buf[1].epoch
          /\ conn.accepted_records[i].sequence_number = op.buf[1].sequence_number
          /\ conn.accepted_records[i].data # op.buf[1].data

\* C8.  The sequence numbers process_packet and process_handshake_packet assign
\* are strictly increasing within each epoch over all the records the connection
\* sends, the fragments of a handshake message and the unencrypted records of
\* epoch 0 included; each epoch has its own counter, which starts at 0.
C8_SequenceNumbersIncrease ==
    [][ wire' # wire =>
          /\ \A i, j \in DOMAIN wire' :
                i < j /\ wire'[i].epoch = wire'[j].epoch
                => U64Gt(wire'[j].sequence_number, wire'[i].sequence_number)
          /\ \A j \in DOMAIN wire' :
                /\ j > Len(wire)
                /\ \A i \in 1 .. j - 1 : wire'[i].epoch # wire'[j].epoch
                => wire'[j].sequence_number
                      = Counter(conn.local_sequence_number, wire'[j].epoch)
      ]_vars

\* the two fragments of an unencrypted handshake message of epoch 0 were sent
\* with the sequence numbers 0 and 1
C8_Witness ==
    /\ Len(wire) >= 2
    /\ wire[1].content = "Handshake" /\ wire[2].content = "Handshake"
    /\ wire[1].epoch = 0 /\ wire[2].epoch = 0
    /\ ~wire[1].encrypted
    /\ wire[1].message_sequence = wire[2].message_sequence
    /\ wire[1].fragment_offset = 0 /\ wire[2].fragment_offset > 0
    /\ wire[1].sequence_number = U64(0, 0)
    /\ wire[2].sequence_number = U64(0, 1)

\* the counter of epoch e is beyond the 48 bits
Exhausted(lsn, e) == U64Gt(Counter(lsn, e), MAX_SEQUENCE_NUMBER)

\* C9.  The allocation of a sequence number succeeds for every value up to and
\* including 2^48 - 1 and fails with ErrSequenceNumberOverflow when the value
\* would be 2^48; no record with a sequence number above 2^48 - 1 is sent, and
\* after an overflow every later allocation in that epoch fails as well.
C9_SequenceNumberOverflow ==
    [][ /\ \A e \in 0 .. 1 :
              Exhausted(conn.local_sequence_number, e)
              => Exhausted(conn'.local_sequence_number, e)
        /\ \A i \in DOMAIN wire' :
              ~U64Gt(wire'[i].sequence_number, MAX_SEQUENCE_NUMBER)
        /\ op'.name = "handle_outgoing_packets" =>
              LET q   == conn.outgoing_packets
                  lsn == conn.local_sequence_number
              IN  /\ (\E i \in DOMAIN q : Exhausted(lsn, q[i].epoch))
                        => op'.ret = "ErrSequenceNumberOverflow" /\ wire' = wire
                  /\ op'.ret = "ErrSequenceNumberOverflow"
                        => \E i \in DOMAIN q :
                              Exhausted(conn'.local_sequence_number, q[i].epoch)
                  /\ Len(q) = 1 /\ q[1].content # "Handshake"
                             /\ ~Exhausted(lsn, q[1].epoch)
                        => /\ op'.ret = "Ok"
                           /\ Len(wire') = Len(wire) + 1
                           /\ wire'[Len(wire')].sequence_number = Counter(lsn, q[1].epoch)
      ]_vars

\* a record was sent with the sequence number 2^48 - 1, and the allocation after
\* it failed
C9_Witness ==
    /\ op.name = "handle_outgoing_packets"
    /\ op.ret = "ErrSequenceNumberOverflow"
    /\ \E i \in DOMAIN wire : wire[i].sequence_number = MAX_SEQUENCE_NUMBER

\* C10 (as the code has it).  With the handshake completed and the local sequence
\* number of the current epoch at 2^48 - 1, write(b"x") returns Ok(1): it appends
\* its packet to the outgoing queue and allocates no sequence number.  No write
\* returns SequenceNumberOverflow; sequence numbers are allocated, and their
\* overflow reported, by handle_outgoing_packets when the queue is sent.
C10_OverflowOnSendAmended ==
    [][ /\ /\ op'.name = "write"
           /\ conn.handshake_completed /\ ~conn.closed
           /\ Counter(conn.local_sequence_number, conn.local_epoch) = MAX_SEQUENCE_NUMBER
           => /\ op'.ret = "Ok"
              /\ op'.val = 1
              /\ Len(conn'.outgoing_packets) = Len(conn.outgoing_packets) + 1
        /\ op'.name = "write" => op'.ret # "ErrSequenceNumberOverflow"
        /\ conn'.local_sequence_number # conn.local_sequence_number
              => op'.name = "handle_outgoing_packets"
        /\ op'.ret = "ErrSequenceNumberOverflow" => op'.name = "handle_outgoing_packets"
      ]_vars

\* C10 (as stated).  With the handshake completed and the local sequence number of
\* the current epoch at 2^48 - 1, the next write(b"x") returns
\* SequenceNumberOverflow.
C10_OverflowOnWrite ==
    [][ /\ op'.name = "write"
        /\ conn.handshake_completed /\ ~conn.closed
        /\ Counter(conn.local_sequence_number, conn.local_epoch) = MAX_SEQUENCE_NUMBER
        => op'.ret = "ErrSequenceNumberOverflow"
      ]_vars

\* the session was resumed at 2^48 - 1 and its first write, of one byte, returned
\* Ok: the packet is in the outgoing queue, the counter still at 2^48 - 1
C10_Witness ==
    /\ op.name = "write"
    /\ op.ret = "Ok"
    /\ op.val = 1
    /\ conn.handshake_completed
    /\ wire = << >>
    /\ Len(conn.outgoing_packets) = 1
    /\ conn.outgoing_packets[1].content = "ApplicationData"
    /\ Counter(conn.local_sequence_number, conn.local_epoch) = MAX_SEQUENCE_NUMBER

\* the handshake packets among the first n packets of pkts
HandshakeBefore(pkts, n) ==
    Cardinality({ i \in 1 .. n : pkts[i].content = "Handshake" })

\* C11.  Every handshake packet prepare() stamps gets as message_sequence the
\* number of handshake messages stamped before it on this connection, the value
\* of handshake_send_sequence before its increment: the messages generated carry
\* 0, 1, 2, ... with no gap and no repeat over all the flights; a packet that is
\* not a handshake packet (ChangeCipherSpec, Alert) takes no message_sequence.
C11_MessageSequence ==
    [][ /\ conn'.stamped = [i \in 1 .. Len(conn'.stamped) |-> i - 1]
        /\ Len(conn'.stamped) = conn'.handshake_send_sequence
        /\ conn'.handshake_send_sequence # conn.handshake_send_sequence
              => op'.name = "handshake" /\ op'.state = "Preparing"
        /\ op'.name = "handshake" /\ op'.state = "Preparing" /\ IsSome(conn'.flights) =>
              LET pkts == Unwrap(conn'.flights)
              IN  /\ \A i \in DOMAIN pkts :
                        IF pkts[i].content = "Handshake"
                        THEN pkts[i].message_sequence
                                 = conn.handshake_send_sequence + HandshakeBefore(pkts, i - 1)
                        ELSE pkts[i].message_sequence = 0
                  /\ conn'.handshake_send_sequence
                         = conn.handshake_send_sequence + HandshakeBefore(pkts, Len(pkts))
      ]_vars

\* the client prepared its Flight5 after two flights of one message each: the two
\* handshake messages of the flight carry 2 and 3, the ChangeCipherSpec between
\* them took none
C11_Witness ==
    /\ op.name = "handshake"
    /\ op.state = "Preparing"
    /\ conn.stamped = << 0, 1, 2, 3 >>
    /\ IsSome(conn.flights)
    /\ LET pkts == Unwrap(conn.flights)
       IN  /\ Len(pkts) = 3
           /\ pkts[1].content = "Handshake" /\ pkts[1].message_sequence = 2
           /\ pkts[2].content = "ChangeCipherSpec"
           /\ pkts[3].content = "Handshake" /\ pkts[3].message_sequence = 3

\* the packets f lie in the queue q, one after the other
Holds(q, f) ==
    \E k \in 1 .. Len(q) - Len(f) + 1 : SubSeq(q, k, k + Len(f) - 1) = f

\* C12.  Retransmission keeps the sequence numbers: when the timer fires in
\* Waiting with a flight that is retransmitted, the FSM goes to Sending and not
\* through Preparing, the packets enqueued again are the packets first sent (the
\* same message_sequence values), and handshake_send_sequence is as it was;
\* handshake_send_sequence never decreases.  (Under Spec the outgoing queue is
\* never taken from, so the packets first sent are still in it.)
C12_Retransmission ==
    [][ /\ conn'.handshake_send_sequence >= conn.handshake_send_sequence
        /\ /\ op'.name = "handle_timeout"
           /\ IsSome(conn.current_retransmit_timer) /\ ~conn.handshake_completed
           /\ conn.current_handshake_state = "Waiting" /\ conn.retransmit
           => /\ hs_active'
              /\ conn'.current_handshake_state = "Sending"
              /\ conn'.flights = conn.flights
              /\ conn'.handshake_send_sequence = conn.handshake_send_sequence
              /\ conn'.outgoing_packets = conn.outgoing_packets
        /\ op.name = "handle_timeout" /\ op'.name = "handshake" /\ op'.state = "Sending" =>
              LET f == IF IsSome(conn.flights) THEN Unwrap(conn.flights) ELSE << >>
              IN  /\ conn'.outgoing_packets = conn.outgoing_packets \o f
                  /\ Holds(conn.outgoing_packets, f)
                  /\ conn'.flights = conn.flights
                  /\ conn'.handshake_send_sequence = conn.handshake_send_sequence
                  /\ conn'.stamped = conn.stamped
                  /\ conn'.current_handshake_state \in {"Waiting", "Finished"}
      ]_vars

\* the timer fired on the client waiting after its Flight1: the ClientHello is in
\* the outgoing queue twice, with message_sequence 0 both times, and
\* handshake_send_sequence is 1
C12_Witness ==
    /\ op.name = "handshake"
    /\ op.state = "Sending"
    /\ conn.current_flight = "Flight1"
    /\ conn.handshake_send_sequence = 1
    /\ Len(conn.outgoing_packets) = 2
    /\ conn.outgoing_packets[1] = conn.outgoing_packets[2]
    /\ conn.outgoing_packets[1].content = "Handshake"
    /\ conn.outgoing_packets[1].message_sequence = 0

\* the replay detector of the epoch of pkt takes its sequence number as fresh
Fresh(c, pkt) ==
    check(GrowDetectors(c.replay_detector, pkt.epoch,
                        c.replay_protection_window)[pkt.epoch + 1],
          pkt.sequence_number).ok

\* the record pkt gets as far as its content is looked at: its header parses, its
\* epoch is not ahead of remote_epoch, it is no replay, and it decrypts
ReachesContent(c, pkt) ==
    /\ pkt.hdr_ok
    /\ pkt.epoch <= c.remote_epoch
    /\ Fresh(c, pkt)
    /\ pkt.epoch # 0 => c.cipher_initialized /\ pkt.auth

\* the last packet of the queue q2, which is q with one packet more
Pushed(q, q2) ==
    IF Len(q2) = Len(q) + 1 /\ SubSeq(q2, 1, Len(q)) = q
    THEN q2[Len(q2)] ELSE Packet("-", 0, FALSE, NoAlert, << >>, 0)

\* C13.  An ApplicationData record received in epoch 0 is never delivered to
\* read(): handle_incoming_packet buffers nothing, a Fatal UnexpectedMessage alert
\* is appended to the outgoing queue, and read_and_buffer returns an error to its
\* caller.  (The record is one whose content is looked at: a record whose
\* sequence number the replay detector of epoch 0 has seen is dropped before.)
C13_ApplicationDataEpochZero ==
    [][ /\ \A i \in DOMAIN conn'.accepted_records : conn'.accepted_records[i].epoch # 0
        /\ op'.name = "handle_transmit" /\ op'.buf[1].content = "ApplicationData"
                                        /\ op'.buf[1].epoch = 0 =>
              /\ Len(op'.buf) = 1 =>
                    /\ conn'.incoming_decrypted_packets = conn.incoming_decrypted_packets
                    /\ conn'.incoming_encrypted_packets = conn.incoming_encrypted_packets
              /\ ReachesContent(conn, op'.buf[1]) =>
                    /\ Pushed(conn.outgoing_packets, conn'.outgoing_packets)
                           = AlertPacket(conn.local_epoch, conn.handshake_completed,
                                         "Fatal", "UnexpectedMessage")
                    /\ op'.ret \notin {"Ok", "running"}
                    /\ [conn' EXCEPT !.replay_detector = conn.replay_detector,
                                     !.outgoing_packets = conn.outgoing_packets] = conn
      ]_vars

\* a resumed session, remote_epoch 1, was sent application data in a record of
\* epoch 0 with a handshake record after it: the alert is queued, nothing is
\* buffered and the handshake record was not looked at
C13_Witness ==
    /\ op.name = "handle_transmit"
    /\ Len(op.buf) = 2
    /\ op.buf[1].content = "ApplicationData" /\ op.buf[1].epoch = 0
    /\ op.buf[2].content = "Handshake"
    /\ op.ret = "ErrAlertFatalOrClose"
    /\ conn.remote_epoch = 1
    /\ conn.incoming_decrypted_packets = << >>
    /\ ~conn.handshake_rx
    /\ conn.outgoing_packets # << >>
    /\ conn.outgoing_packets[Len(conn.outgoing_packets)].alert
           = Alert("Fatal", "UnexpectedMessage")

\* C14.  When read_and_buffer comes to a received Alert record whose level is
\* Fatal or whose description is CloseNotify, it enqueues an alert in reply (a
\* Warning CloseNotify for a CloseNotify, the alert received otherwise), returns
\* ErrAlertFatalOrClose and looks at no further record of the datagram; the
\* transport handler that owns the endpoint then closes it.
C14_AlertFatalOrClose ==
    [][ /\ endpoint_closed' # endpoint_closed
              => op'.name = "handle_transmit" /\ op'.ret = "ErrAlertFatalOrClose"
        /\ /\ op'.name = "handle_transmit"
           /\ op'.buf[1].content = "Alert"
           /\ IsFatalOrClose(op'.buf[1].alert)
           /\ ReachesContent(conn, op'.buf[1])
           => LET pkt   == op'.buf[1]
                  reply == IF pkt.alert.alert_description = "CloseNotify"
                           THEN Alert("Warning", "CloseNotify") ELSE pkt.alert
              IN  /\ Pushed(conn.outgoing_packets, conn'.outgoing_packets)
                         = AlertPacket(conn.local_epoch, conn.handshake_completed,
                                       reply.alert_level, reply.alert_description)
                  /\ op'.ret = "ErrAlertFatalOrClose"
                  /\ endpoint_closed'
                  /\ [conn' EXCEPT !.replay_detector = conn.replay_detector,
                                   !.outgoing_packets = conn.outgoing_packets] = conn
                  /\ Len(conn'.replay_detector)
                         = (IF Len(conn.replay_detector) > pkt.epoch + 1
                            THEN Len(conn.replay_detector) ELSE pkt.epoch + 1)
                  /\ conn'.replay_detector[pkt.epoch + 1].latest_seq
                         <= (IF conn.replay_detector = << >> THEN pkt.sequence_number
                             ELSE IF Len(conn.replay_detector) <= pkt.epoch
                                  THEN pkt.sequence_number
                                  ELSE IF conn.replay_detector[pkt.epoch + 1].latest_seq
                                              > pkt.sequence_number
                                       THEN conn.replay_detector[pkt.epoch + 1].latest_seq
                                       ELSE pkt.sequence_number)
      ]_vars

\* a Fatal CloseNotify of epoch 1 came with an application data record after it:
\* a Warning CloseNotify is queued in reply, the application data is not
\* buffered, the endpoint is closed
C14_Witness ==
    /\ op.name = "handle_transmit"
    /\ Len(op.buf) = 2
    /\ op.buf[1].content = "Alert" /\ op.buf[1].alert = Alert("Fatal", "CloseNotify")
    /\ op.buf[2].content = "ApplicationData"
    /\ op.ret = "ErrAlertFatalOrClose"
    /\ endpoint_closed
    /\ conn.incoming_decrypted_packets = << >>
    /\ conn.accepted_records = << >>
    /\ conn.outgoing_packets[Len(conn.outgoing_packets)].alert
           = Alert("Warning", "CloseNotify")

----------------------------------------------------------------------------
\* The properties of the ICE agent.

\* the pairs ping_all_candidates looks at
Checked(p) == p.state \in {"Waiting", "InProgress"}

\* C15, as the specification states it: in every reachable state of the agent,
\* every pair of the checklist has binding_request_count <= max_binding_requests.
C15_BindingRequestCount ==
    \A i \in DOMAIN agent.checklist :
       agent.checklist[i].binding_request_count <= agent.max_binding_requests

\* C15, amended: every pair of the checklist has binding_request_count <=
\* max_binding_requests + 1.  ping_all_candidates sends a request for a Waiting
\* or InProgress pair and adds one to its count while the count is not above
\* max_binding_requests, marks it Failed and sends nothing once it is, and leaves
\* the other pairs alone; no other operation changes the count of a pair.
C15_BindingRequestCountAmended ==
    [][ /\ \A i \in DOMAIN agent'.checklist :
              agent'.checklist[i].binding_request_count <= agent'.max_binding_requests + 1
        /\ Len(agent'.checklist) >= Len(agent.checklist)
        /\ agent'.max_binding_requests = agent.max_binding_requests
        /\ \A i \in DOMAIN agent.checklist :
              LET p  == agent.checklist[i]
                  p2 == agent'.checklist[i]
              IN  IF ice_op'.name = "ping_all_candidates" /\ Checked(p)
                  THEN IF p.binding_request_count <= agent.max_binding_requests
                       THEN /\ p2 = [p EXCEPT !.state = "InProgress",
                                              !.binding_request_count = @ + 1]
                       ELSE /\ p2 = [p EXCEPT !.state = "Failed"]
                  ELSE p2.binding_request_count = p.binding_request_count
        /\ ice_op'.name = "ping_all_candidates" =>
              LET pinged == { i \in DOMAIN agent.checklist :
                                /\ Checked(agent.checklist[i])
                                /\ agent.checklist[i].binding_request_count
                                      <= agent.max_binding_requests }
              IN  /\ agent'.sent = agent.sent + Cardinality(pinged)
                  /\ agent'.transaction_ids = agent.transaction_ids + Cardinality(pinged)
      ]_vars

\* A pair was pinged max_binding_requests + 1 times, and the call after that
\* marked it Failed; the other pair is still pinged.
C15_Witness ==
    /\ ice_op.name = "ping_all_candidates"
    /\ agent.max_binding_requests = 1
    /\ \E i, j \in DOMAIN agent.checklist :
          /\ agent.checklist[i].state = "Failed"
          /\ agent.checklist[i].binding_request_count = agent.max_binding_requests + 1
          /\ agent.checklist[j].state = "InProgress"
          /\ agent.checklist[j].binding_request_count = 1


\* The message of the step is in role conflict with the agent.
RoleConflict(a, m) ==
    \/ a.is_controlling /\ m.ice_controlling
    \/ ~a.is_controlling /\ m.ice_controlled

\* The step is a call of handle_inbound on a Binding message of class `class`.
Inbound(class) ==
    /\ ice_op'.name = "handle_inbound"
    /\ ice_op'.m.method = "Binding"
    /\ ice_op'.m.class = class

\* C16: handle_inbound on a Binding request whose USERNAME is not
\* local_ufrag:remote_ufrag, or whose MESSAGE-INTEGRITY does not verify under
\* local_pwd, sends no response and changes nothing: the state and the nominated
\* flag of every pair, the selected pair, the connection state, the pending
\* binding requests and last_received of the remote candidates stay as they are.
C16_RequestCredentials ==
    [][ ( /\ Inbound("Request")
          /\ \/ ice_op'.m.username
                    # Some(<< agent.ufrag_pwd.local_ufrag, agent.ufrag_pwd.remote_ufrag >>)
             \/ ice_op'.m.integrity # Some(agent.ufrag_pwd.local_pwd) )
        => /\ agent'.sent = agent.sent
           /\ agent'.checklist = agent.checklist
           /\ agent'.selected_pair = agent.selected_pair
           /\ agent'.connection_state = agent.connection_state
           /\ agent'.pending_binding_requests = agent.pending_binding_requests
           /\ agent'.last_received = agent.last_received
           /\ agent' = agent
      ]_vars

\* A request with the USERNAME of another session and the right
\* MESSAGE-INTEGRITY came from the remote candidate of a pair, the agent
\* controlled and checking, the peer controlling.
C16_Witness ==
    /\ ice_op.name = "handle_inbound"
    /\ ice_op.m.class = "Request"
    /\ ice_op.m.method = "Binding"
    /\ ice_op.m.username = Some(<<"luf", "xx">>)
    /\ ice_op.m.integrity = Some(agent.ufrag_pwd.local_pwd)
    /\ ice_op.m.use_candidate
    /\ ~RoleConflict(agent, ice_op.m)
    /\ ~agent.is_controlling
    /\ agent.ufrag_pwd.remote_ufrag = "ru"
    /\ agent.connection_state = "Checking"
    /\ \E i \in DOMAIN agent.checklist : agent.checklist[i].remote = ice_op.remote

\* The pending binding request a response with transaction id `id` answers at
\* time t: it is there and its age is below the timeout.
Answers(a, id, t) ==
    { i \in DOMAIN a.pending_binding_requests :
        /\ a.pending_binding_requests[i].transaction_id = id
        /\ t - a.pending_binding_requests[i].timestamp < MAX_BINDING_REQUEST_TIMEOUT }

\* C17: a Binding success response is acted on only if its MESSAGE-INTEGRITY
\* verifies under remote_pwd, its source is a remote candidate of the agent and
\* its transaction id is that of a pending binding request whose age is below
\* the timeout.  Without one of the three no pair changes, the selected pair and
\* the connection state stay, nothing is sent and no pending request younger
\* than the timeout is taken out; handle_inbound_binding_success gives None for
\* a transaction id that is unknown or expired, and with all three the request
\* answered is taken out of the pending requests.
C17_SuccessResponse ==
    [][ Inbound("SuccessResponse") =>
          LET m  == ice_op'.m
              ok == /\ m.integrity = Some(agent.ufrag_pwd.remote_pwd)
                    /\ Contains(agent.remote_candidates, ice_op'.remote)
                    /\ Answers(agent, m.transaction_id, now) # {}
              young == SelectSeq(agent.pending_binding_requests,
                                 LAMBDA b : now - b.timestamp < MAX_BINDING_REQUEST_TIMEOUT)
          IN  /\ ~ok => /\ agent'.checklist = agent.checklist
                        /\ agent'.selected_pair = agent.selected_pair
                        /\ agent'.connection_state = agent.connection_state
                        /\ agent'.sent = agent.sent
                        /\ agent'.pending_binding_requests
                              \in {agent.pending_binding_requests, young}
              /\ (Answers(agent, m.transaction_id, now) = {})
                    = ~IsSome(handle_inbound_binding_success(agent, m.transaction_id, now).found)
              /\ (ok /\ ~RoleConflict(agent, m))
                    => /\ Len(agent'.pending_binding_requests) = Len(young) - 1
                       /\ Answers(agent', m.transaction_id, now) = {}
      ]_vars

\* The only request of the agent went out, its transaction id 1; the clock went
\* past the timeout; then the answer came, from the remote candidate and with
\* the MESSAGE-INTEGRITY of remote_pwd: the pair is still InProgress.
C17_Witness ==
    /\ ice_op.name = "handle_inbound"
    /\ ice_op.m.class = "SuccessResponse"
    /\ ice_op.m.integrity = Some(agent.ufrag_pwd.remote_pwd)
    /\ ice_op.m.transaction_id = 1
    /\ ~RoleConflict(agent, ice_op.m)
    /\ agent.transaction_ids = 1
    /\ now >= MAX_BINDING_REQUEST_TIMEOUT
    /\ agent.pending_binding_requests = << >>
    /\ Len(agent.checklist) = 1
    /\ agent.checklist[1].remote = ice_op.remote
    /\ agent.checklist[1].state = "InProgress"
    /\ agent.checklist[1].binding_request_count = 1
    /\ agent.last_received[ice_op.remote] = now

\* C18: role conflict is not resolved by switching.  A message with
\* ICE-CONTROLLING for a controlling agent, or ICE-CONTROLLED for a controlled
\* one, is dropped whatever its credentials: nothing is sent, no pair and no
\* selection changes, last_received stays; and no call of handle_inbound
\* changes is_controlling.
C18_RoleConflict ==
    [][ ice_op'.name = "handle_inbound" =>
          /\ agent'.is_controlling = agent.is_controlling
          /\ RoleConflict(agent, ice_op'.m)
                => /\ agent'.sent = agent.sent
                   /\ agent'.checklist = agent.checklist
                   /\ agent'.selected_pair = agent.selected_pair
                   /\ agent'.connection_state = agent.connection_state
                   /\ agent'.last_received = agent.last_received
                   /\ agent' = agent
      ]_vars

\* A controlling agent took a request with ICE-CONTROLLING, the USERNAME and the
\* MESSAGE-INTEGRITY right, from the remote candidate of a pair.
C18_Witness ==
    /\ ice_op.name = "handle_inbound"
    /\ ice_op.m.class = "Request"
    /\ ice_op.m.method = "Binding"
    /\ ice_op.m.ice_controlling
    /\ agent.is_controlling
    /\ agent.ufrag_pwd.remote_ufrag = "ru"
    /\ ice_op.m.username = Some(<< agent.ufrag_pwd.local_ufrag, agent.ufrag_pwd.remote_ufrag >>)
    /\ ice_op.m.integrity = Some(agent.ufrag_pwd.local_pwd)
    /\ agent.connection_state = "Checking"
    /\ \E i \in DOMAIN agent.checklist : agent.checklist[i].remote = ice_op.remote


\* C19: close called in any connection state returns Ok and leaves the agent
\* Closed with no local and no remote candidate, the rest of the agent as it
\* was; close on an agent that is Closed and has no candidates, as a second
\* close is, changes nothing.
C19_Close ==
    [][ ice_op'.name = "close" =>
          /\ ice_op'.ret = "Ok"
          /\ ice_op'.state = agent.connection_state
          /\ agent'.connection_state = "Closed"
          /\ agent'.local_candidates = << >>
          /\ agent'.remote_candidates = << >>
          /\ agent' = [agent EXCEPT !.connection_state = "Closed",
                                    !.local_candidates = << >>,
                                    !.remote_candidates = << >>]
          /\ ice_op.name = "close" => agent' = agent
      ]_vars

\* close was called on an agent that was Disconnected: its pair selected, the
\* peer silent for longer than disconnected_timeout.
C19_Witness ==
    /\ ice_op.name = "close"
    /\ ice_op.ret = "Ok"
    /\ ice_op.state = "Disconnected"
    /\ agent.connection_state = "Closed"
    /\ IsSome(agent.selected_pair)
    /\ agent.checklist # << >>
    /\ agent.local_candidates = << >>
    /\ agent.remote_candidates = << >>

\* C20: start_connectivity_checks with non-empty remote credentials returns Ok,
\* stores the credentials and the role, and leaves the agent Checking, a New
\* agent among them; with an empty remote ufrag it returns ErrRemoteUfragEmpty,
\* with an empty remote pwd ErrRemotePwdEmpty, and in both cases the agent is as
\* it was: connection_state, is_controlling and the stored credentials.
C20_StartConnectivityChecks ==
    [][ ice_op'.name = "start_connectivity_checks" =>
          LET o == ice_op'
          IN  IF o.remote_ufrag = ""
              THEN /\ o.ret = "ErrRemoteUfragEmpty"
                   /\ agent' = agent
              ELSE IF o.remote_pwd = ""
              THEN /\ o.ret = "ErrRemotePwdEmpty"
                   /\ agent'.connection_state = agent.connection_state
                   /\ agent'.is_controlling = agent.is_controlling
                   /\ agent'.ufrag_pwd = agent.ufrag_pwd
                   /\ agent' = agent
              ELSE /\ o.ret = "Ok"
                   /\ agent'.connection_state = "Checking"
                   /\ agent'.is_controlling = o.is_controlling
                   /\ agent'.ufrag_pwd = [agent.ufrag_pwd EXCEPT !.remote_ufrag = o.remote_ufrag,
                                                                 !.remote_pwd = o.remote_pwd]
      ]_vars

\* A New agent, controlled, was started as controlling with a ufrag and an empty
\* pwd: it is New, controlled and without remote credentials.
C20_Witness ==
    /\ ice_op.name = "start_connectivity_checks"
    /\ ice_op.ret = "ErrRemotePwdEmpty"
    /\ ice_op.remote_ufrag = "ru"
    /\ ice_op.is_controlling
    /\ ~agent.is_controlling
    /\ agent.connection_state = "New"
    /\ agent.ufrag_pwd.remote_ufrag = ""
    /\ agent.ufrag_pwd.remote_pwd = ""


\* C23.  The Waiting state.  With the inbound-handshake flag set, the iteration
\* consumes the flag and asks current_flight.parse() once; on Ok(next) the FSM goes
\* to Finished if and only if next is the current flight and is the last receive
\* flight, and otherwise current_flight becomes next and the FSM goes to Preparing.
\* With no flag set parse is not asked and the FSM stays in Waiting, the
\* connection as it was.
C23_Waiting ==
    [][ op'.name = "handshake" /\ op'.state = "Waiting" =>
          IF conn.handshake_rx
          THEN /\ ~conn'.handshake_rx
               /\ op'.answer \in ParseOutcomes(conn.current_flight)
               /\ op'.answer.ok =>
                     LET next == op'.answer.next
                     IN  /\ op'.ret = "running"
                         /\ conn'.current_handshake_state = "Finished"
                               <=> (next = conn.current_flight /\ is_last_recv_flight(next))
                         /\ IF conn'.current_handshake_state = "Finished"
                            THEN conn'.current_flight = conn.current_flight
                            ELSE /\ conn'.current_flight = next
                                 /\ conn'.current_handshake_state = "Preparing"
          ELSE /\ op'.answer = NoAnswer
               /\ op'.ret = "running"
               /\ conn' = conn
      ]_vars

\* the client waiting after its Flight5 parsed the server's last flight: parse
\* named Flight5 again, and the FSM is in Finished
C23_Witness ==
    /\ op.name = "handshake"
    /\ op.state = "Waiting"
    /\ op.answer.ok
    /\ op.answer.next = "Flight5"
    /\ conn.current_flight = "Flight5"
    /\ conn.current_handshake_state = "Finished"
    /\ ~conn.handshake_rx

\* the contents of the packets of a flight, in their order
Contents(pkts) == [i \in DOMAIN pkts |-> pkts[i].content]

\* C24.  The Sending state.  send() appends the packets of the prepared flight to
\* the outgoing queue, in the order generate() gave them.  When the current flight
\* is the last send flight the FSM goes to Finished and the retransmit timer is
\* left as it was; otherwise the timer is armed to now + retransmit_interval and
\* the FSM goes to Waiting.
C24_Sending ==
    [][ op'.name = "handshake" /\ op'.state = "Sending" =>
          LET f == IF IsSome(conn.flights) THEN Unwrap(conn.flights) ELSE << >>
          IN  /\ op'.ret = "running"
              /\ conn'.outgoing_packets = conn.outgoing_packets \o f
              /\ IsSome(conn.flights)
                    => Contents(f) = Contents(FlightPackets(conn.current_flight))
              /\ conn'.flights = conn.flights
              /\ IF is_last_send_flight(conn.current_flight)
                 THEN /\ conn'.current_handshake_state = "Finished"
                      /\ conn'.current_retransmit_timer = conn.current_retransmit_timer
                 ELSE /\ conn'.current_handshake_state = "Waiting"
                      /\ conn'.current_retransmit_timer
                             = Some(now + conn.retransmit_interval)
      ]_vars

\* the server sent its Flight6, the ChangeCipherSpec before the Finished message,
\* and is in Finished
C24_Witness ==
    /\ op.name = "handshake"
    /\ op.state = "Sending"
    /\ conn.current_flight = "Flight6"
    /\ conn.current_handshake_state = "Finished"
    /\ Len(conn.outgoing_packets) >= 2
    /\ LET n == Len(conn.outgoing_packets)
       IN  /\ conn.outgoing_packets[n - 1].content = "ChangeCipherSpec"
           /\ conn.outgoing_packets[n].content = "Handshake"

\* the client sent its Flight1 at time 1: the timer is armed to one interval later
C24_WitnessArmed ==
    /\ op.name = "handshake"
    /\ op.state = "Sending"
    /\ conn.current_flight = "Flight1"
    /\ conn.current_handshake_state = "Waiting"
    /\ now = 1
    /\ conn.current_retransmit_timer = Some(1 + INITIAL_TICKER_INTERVAL)

\* C25.  handshake_timeout.  In Waiting with a flight that is retransmitted the
\* FSM goes to Sending, and the Sending iteration that follows enqueues the stored
\* flight again; in Waiting with a flight that is not retransmitted the retransmit
\* timer is armed again and the FSM stays in Waiting; in Finished the FSM goes to
\* Sending, where the last flight is enqueued again; in every other state
\* (Preparing, Sending, Errored) nothing changes and Ok is returned.
C25_HandshakeTimeout ==
    [][ /\ op'.name = "handshake_timeout" =>
              /\ op'.state = conn.current_handshake_state
              /\ CASE conn.current_handshake_state = "Waiting" /\ conn.retransmit ->
                        /\ hs_active'
                        /\ conn' = [conn EXCEPT !.current_handshake_state = "Sending"]
                   [] conn.current_handshake_state = "Waiting" /\ ~conn.retransmit ->
                        /\ hs_active'
                        /\ conn' = [conn EXCEPT !.current_retransmit_timer =
                                                    Some(now + conn.retransmit_interval)]
                   [] conn.current_handshake_state = "Finished" ->
                        /\ hs_active'
                        /\ conn' = [conn EXCEPT !.current_handshake_state = "Sending"]
                   [] OTHER ->
                        /\ ~hs_active'
                        /\ op'.ret = "Ok"
                        /\ conn' = conn
        /\ op.name = "handshake_timeout" /\ conn.current_handshake_state = "Sending" =>
              /\ op'.name = "handshake"
              /\ op'.state = "Sending"
              /\ conn'.outgoing_packets
                     = conn.outgoing_packets
                          \o (IF IsSome(conn.flights) THEN Unwrap(conn.flights) ELSE << >>)
              /\ conn'.flights = conn.flights
      ]_vars

\* handshake_timeout came on the server in Finished after its Flight6: the FSM went
\* through Sending, and the ChangeCipherSpec and the Finished message of the flight
\* are in the outgoing queue twice
C25_Witness ==
    /\ op.name = "handshake"
    /\ op.state = "Sending"
    /\ conn.handshake_completed
    /\ conn.current_flight = "Flight6"
    /\ conn.current_handshake_state = "Finished"
    /\ IsSome(conn.flights)
    /\ Len(conn.outgoing_packets) >= 4
    /\ LET n == Len(conn.outgoing_packets)
       IN  /\ SubSeq(conn.outgoing_packets, n - 1, n) = Unwrap(conn.flights)
           /\ SubSeq(conn.outgoing_packets, n - 3, n - 2) = Unwrap(conn.flights)

\* handshake_timeout came on the server waiting after its Flight2, which is not
\* retransmitted: the timer is armed again and the FSM is in Waiting
C25_WitnessRearmed ==
    /\ op.name = "handshake_timeout"
    /\ op.state = "Waiting"
    /\ ~conn.retransmit
    /\ conn.current_flight = "Flight2"
    /\ conn.current_handshake_state = "Waiting"
    /\ now = 1
    /\ conn.current_retransmit_timer = Some(1 + INITIAL_TICKER_INTERVAL)

\* handshake_timeout came in Preparing: Ok is returned, handshake() is not entered
C25_WitnessPreparing ==
    /\ op.name = "handshake_timeout"
    /\ op.state = "Preparing"
    /\ op.ret = "Ok"
    /\ ~hs_active
    /\ conn.current_handshake_state = "Preparing"

\* generate() or parse() answered with an alert and an error
AlertAndError(o) == ~o.ok /\ IsSome(o.alert) /\ IsSome(o.err)

\* C26.  When generate() (in Preparing) or parse() (in Waiting or Finished) answers
\* with an alert together with an error, handshake() returns that error with the
\* alert packet appended to the outgoing queue, and the FSM state and the current
\* flight are as they were before the failing iteration.
C26_AlertBeforeError ==
    [][ /\ op'.name = "handshake"
        /\ op'.state \in {"Preparing", "Waiting", "Finished"}
        /\ AlertAndError(op'.answer)
        => /\ ~hs_active'
           /\ op'.ret = Unwrap(op'.answer.err)
           /\ conn'.outgoing_packets
                  = Append(conn.outgoing_packets,
                           AlertPacket(conn.local_epoch, conn.handshake_completed,
                                       Unwrap(op'.answer.alert).alert_level,
                                       Unwrap(op'.answer.alert).alert_description))
           /\ conn'.current_handshake_state = conn.current_handshake_state
           /\ conn'.current_handshake_state = op'.state
           /\ conn'.current_flight = conn.current_flight
      ]_vars

\* parse() failed with an alert on the server waiting after its Flight4: the alert
\* is the last packet of the outgoing queue, after the two messages of the flight,
\* and the FSM is in Waiting on Flight4
C26_Witness ==
    /\ op.name = "handshake"
    /\ op.state = "Waiting"
    /\ AlertAndError(op.answer)
    /\ op.ret = "ErrFlight"
    /\ ~hs_active
    /\ conn.current_flight = "Flight4"
    /\ conn.current_handshake_state = "Waiting"
    /\ Len(conn.outgoing_packets) >= 3
    /\ LET n == Len(conn.outgoing_packets)
       IN  /\ conn.outgoing_packets[n].content = "Alert"
           /\ conn.outgoing_packets[n].alert = FlightAlert
           /\ conn.outgoing_packets[n - 1].content = "Handshake"

\* generate() failed with an alert in Preparing
C26_WitnessGenerate ==
    /\ op.name = "handshake"
    /\ op.state = "Preparing"
    /\ AlertAndError(op.answer)
    /\ op.ret = "ErrFlight"
    /\ conn.current_handshake_state = "Preparing"
    /\ conn.outgoing_packets # << >>
    /\ conn.outgoing_packets[Len(conn.outgoing_packets)].content = "Alert"

\* parse() failed with an alert in Finished, the handshake completed: the alert
\* is to be encrypted
C26_WitnessFinished ==
    /\ op.name = "handshake"
    /\ op.state = "Finished"
    /\ AlertAndError(op.answer)
    /\ op.ret = "ErrFlight"
    /\ conn.handshake_completed
    /\ conn.current_handshake_state = "Finished"
    /\ conn.outgoing_packets # << >>
    /\ conn.outgoing_packets[Len(conn.outgoing_packets)].content = "Alert"
    /\ conn.outgoing_packets[Len(conn.outgoing_packets)].should_encrypt

\* C27.  handshake_completed becomes true only in the completion branch of
\* handshake(), with the FSM in Finished before and after, and once true it never
\* becomes false again; handshake() returns Ok, which it does only through its
\* completion branch, at most once on a connection: every such return is the one
\* that sets handshake_completed.
C27_CompletedOnce ==
    [][ /\ conn.handshake_completed => conn'.handshake_completed
        /\ ~conn.handshake_completed /\ conn'.handshake_completed
              => /\ conn.current_handshake_state = "Finished"
                 /\ conn'.current_handshake_state = "Finished"
                 /\ op'.name = "handshake"
                 /\ op'.ret = "Ok"
        /\ op'.name = "handshake" /\ op'.ret = "Ok"
              => /\ ~conn.handshake_completed
                 /\ conn'.handshake_completed
                 /\ ~hs_active'
      ]_vars

\* handshake() was entered again on the completed client and left with an error
\* of parse(): handshake_completed is still set
C27_Witness ==
    /\ op.name = "handshake"
    /\ op.state = "Finished"
    /\ op.ret = "ErrFlight"
    /\ ~hs_active
    /\ conn.handshake_completed
    /\ conn.current_flight = "Flight5"
    /\ conn.current_handshake_state = "Finished"

\* the client returned from handshake() through the completion branch
C27_WitnessCompletion ==
    /\ op.name = "handshake"
    /\ op.state = "Finished"
    /\ op.ret = "Ok"
    /\ ~hs_active
    /\ conn.is_client
    /\ conn.handshake_completed

\* C28.  A ChangeCipherSpec record of epoch e = remote_epoch that is no replay
\* and decrypts: with the cipher suite initialized it sets remote_epoch to e + 1
\* and its sequence number is accepted by the replay detector of epoch e; with
\* the cipher suite not initialized it is queued in incoming_encrypted_packets
\* (read_and_buffer sets enqueue) and remote_epoch is unchanged.  remote_epoch
\* never decreases, and grows by at most 1 for each record processed: by at most
\* 1 in read_and_buffer on a datagram of one record, by at most the number of
\* queued records in handle_queued_packets, and not at all in any other step.
C28_ChangeCipherSpec ==
    [][ /\ conn'.remote_epoch >= conn.remote_epoch
        /\ conn'.remote_epoch - conn.remote_epoch
              <= (CASE op'.name = "read_and_buffer" -> Len(op'.buf)
                    [] op'.name = "handle_queued_packets" ->
                           Len(conn.incoming_encrypted_packets)
                    [] OTHER -> 0)
        /\ /\ op'.name = "read_and_buffer"
           /\ op'.buf[1].content = "ChangeCipherSpec"
           /\ op'.buf[1].hdr_ok
           /\ op'.buf[1].epoch = conn.remote_epoch
           /\ Fresh(conn, op'.buf[1])
           /\ op'.buf[1].epoch # 0 /\ conn.cipher_initialized => op'.buf[1].auth
           => LET pkt == op'.buf[1]
              IN  IF conn.cipher_initialized
                  THEN /\ conn'.remote_epoch = pkt.epoch + 1
                       /\ ~Fresh(conn', pkt)
                       /\ conn'.incoming_encrypted_packets = conn.incoming_encrypted_packets
                       /\ op'.ret = "Ok"
                  ELSE /\ conn'.remote_epoch = conn.remote_epoch
                       /\ conn'.incoming_encrypted_packets
                              = Append(conn.incoming_encrypted_packets, pkt)
                       /\ op'.ret = "Ok"
      ]_vars

\* the ChangeCipherSpec of epoch 1 came on a resumed session: remote_epoch is 2 and
\* the replay detector of epoch 1 holds its sequence number
C28_Witness ==
    /\ op.name = "read_and_buffer"
    /\ op.buf[1].content = "ChangeCipherSpec"
    /\ op.buf[1].epoch = 1
    /\ conn.cipher_initialized
    /\ conn.remote_epoch = 2
    /\ ~Fresh(conn, op.buf[1])
    /\ conn.incoming_encrypted_packets = << >>

\* the ChangeCipherSpec of epoch 0 came before the cipher suite was initialized:
\* it is queued, remote_epoch is 0
C28_WitnessQueued ==
    /\ op.name = "read_and_buffer"
    /\ op.buf[1].content = "ChangeCipherSpec"
    /\ op.buf[1].epoch = 0
    /\ ~conn.cipher_initialized
    /\ conn.remote_epoch = 0
    /\ conn.incoming_encrypted_packets = << op.buf[1] >>

\* a can be had from b by leaving elements out
RECURSIVE IsSubsequence(_, _)
IsSubsequence(a, b) ==
    IF a = << >> THEN TRUE
    ELSE IF b = << >> THEN FALSE
    ELSE \/ Head(a) = Head(b) /\ IsSubsequence(Tail(a), Tail(b))
         \/ IsSubsequence(a, Tail(b))

\* the queued records as the history of accepted records holds them
AsAccepted(q) ==
    [i \in DOMAIN q |-> [epoch |-> q[i].epoch, sequence_number |-> q[i].sequence_number,
                         data |-> q[i].data]]

\* C29.  handle_queued_packets does nothing while the handshake is not completed.
\* Once it is completed the queue of early records is empty after the call, also
\* when the call stops on an alert or an error; no record goes back into the
\* queue; the records accepted are records of the queue, each once, in the order
\* they arrived; and when the call returns Ok every queued application data
\* record of an epoch that has been reached was processed: its (epoch,
\* sequence_number) is among the accepted ones.
C29_QueuedPackets ==
    [][ op'.name = "handle_queued_packets" =>
          LET q   == conn.incoming_encrypted_packets
              n   == Len(conn.accepted_records)
              got == SubSeq(conn'.accepted_records, n + 1, Len(conn'.accepted_records))
          IN  IF ~conn.handshake_completed
              THEN conn' = conn /\ op'.ret = "Ok"
              ELSE /\ conn'.incoming_encrypted_packets = << >>
                   /\ SubSeq(conn'.accepted_records, 1, n) = conn.accepted_records
                   /\ IsSubsequence(got, AsAccepted(q))
                   /\ conn'.incoming_decrypted_packets
                          = conn.incoming_decrypted_packets
                               \o [i \in DOMAIN got |-> got[i].data]
                   /\ op'.ret = "Ok" =>
                         \A i \in DOMAIN q :
                            /\ q[i].content = "ApplicationData"
                            /\ q[i].epoch <= conn.remote_epoch
                            /\ q[i].auth /\ conn.cipher_initialized
                            => << q[i].epoch, q[i].sequence_number >>
                                   \in Pairs(conn'.accepted_records)
      ]_vars

\* two application data records of epoch 2 were queued before the
\* ChangeCipherSpec of epoch 1 came; handle_queued_packets took both, in the
\* order they had arrived, and the queue is empty
C29_Witness ==
    /\ op.name = "handle_queued_packets"
    /\ op.ret = "Ok"
    /\ conn.handshake_completed
    /\ conn.remote_epoch = 2
    /\ conn.incoming_encrypted_packets = << >>
    /\ conn.incoming_decrypted_packets = << << 2, 3 >>, << 1 >> >>
    /\ Len(conn.accepted_records) = 2

\* handle_queued_packets stopped on the record that does not decode, the first
\* of two: the second was not processed, and the queue is empty
C29_WitnessStopped ==
    /\ op.name = "handle_queued_packets"
    /\ op.ret = "ErrAlertFatalOrClose"
    /\ conn.handshake_completed
    /\ conn.remote_epoch = 2
    /\ received = 3
    /\ conn.incoming_encrypted_packets = << >>
    /\ conn.accepted_records = << >>
    /\ Len(conn.outgoing_packets) = 1
    /\ conn.outgoing_packets[1].alert = Alert("Fatal", "DecodeError")

\* handle_queued_packets was called before the handshake was completed: the
\* early records are still queued
C29_WitnessNotCompleted ==
    /\ op.name = "handle_queued_packets"
    /\ op.ret = "Ok"
    /\ ~conn.handshake_completed
    /\ Len(conn.incoming_encrypted_packets) = 2

\* the concatenation of the byte strings of a sequence
RECURSIVE Concat(_)
Concat(ss) == IF ss = << >> THEN << >> ELSE Head(ss) \o Concat(Tail(ss))

\* C22.  fragment_handshake(mtu, M) returns ceil(|body| / mtu) fragments, one
\* empty fragment when the body is empty; every fragment carries the
\* handshake_type, the length and the message_sequence of M; the fragment
\* offsets start at 0 and each is the sum of the fragment lengths before it;
\* every fragment_length is the length of the fragment's bytes and at most mtu;
\* the fragments' bytes, concatenated in order, are the body.
C22_FragmentHandshake ==
    call.name = "fragment_handshake" /\ call.returned =>
        LET body == call.h.body
            out  == call.out
        IN  /\ Len(out) = (IF body = << >> THEN 1
                           ELSE (Len(body) + call.mtu - 1) \div call.mtu)
            /\ \A i \in DOMAIN out :
                  /\ out[i].handshake_type = call.h.handshake_type
                  /\ out[i].length = call.h.length
                  /\ out[i].message_sequence = call.h.message_sequence
                  /\ out[i].fragment_offset
                         = Len(Concat([j \in 1 .. i - 1 |-> out[j].body]))
                  /\ out[i].fragment_length = Len(out[i].body)
                  /\ out[i].fragment_length <= call.mtu
            /\ Concat([i \in DOMAIN out |-> out[i].body]) = body

\* a body of four bytes under an MTU of 3: two fragments, of 3 bytes at offset 0
\* and of 1 byte at offset 3
C22_Witness ==
    /\ call.name = "fragment_handshake"
    /\ call.returned
    /\ call.mtu = 3
    /\ call.h.body = << 1, 2, 2, 1 >>
    /\ Len(call.out) = 2
    /\ call.out[1].fragment_offset = 0 /\ call.out[1].body = << 1, 2, 2 >>
    /\ call.out[2].fragment_offset = 3 /\ call.out[2].body = << 1 >>
    /\ call.out[2].message_sequence = call.h.message_sequence

\* an empty body: one fragment, empty
C22_WitnessEmpty ==
    /\ call.name = "fragment_handshake"
    /\ call.returned
    /\ call.h.body = << >>
    /\ Len(call.out) = 1
    /\ call.out[1].fragment_length = 0

\* out is raw_packets put into groups, each group the records of one datagram
\* one after the other; a group of more than one record is shorter than mtu
RECURSIVE IsGrouping(_, _, _)
IsGrouping(raw_packets, out, mtu) ==
    IF out = << >> THEN raw_packets = << >>
    ELSE \E k \in 1 .. Len(raw_packets) :
            /\ Concat(SubSeq(raw_packets, 1, k)) = Head(out)
            /\ k > 1 => Len(Head(out)) < mtu
            /\ IsGrouping(SubSeq(raw_packets, k + 1, Len(raw_packets)), Tail(out), mtu)

\* C30.  compact_raw_packets(records, mtu) keeps every byte, in order: the
\* datagrams concatenated are the records concatenated; no record is split
\* between two datagrams: every datagram is one record or more, whole, in their
\* order; a datagram of more than one record is shorter than mtu; a record that
\* alone is as long as mtu or longer is a datagram of its own.
C30_CompactRawPackets ==
    call.name = "compact_raw_packets" /\ call.returned =>
        /\ Concat(call.out) = Concat(call.raw_packets)
        /\ IsGrouping(call.raw_packets, call.out, call.mtu)
        /\ \A i \in DOMAIN call.raw_packets :
              Len(call.raw_packets[i]) >= call.mtu =>
                 \E j \in DOMAIN call.out :
                    /\ call.out[j] = call.raw_packets[i]
                    /\ Concat(SubSeq(call.out, 1, j - 1))
                           = Concat(SubSeq(call.raw_packets, 1, i - 1))

\* records of 1, 2 and 3 bytes under an MTU of 4: the first two share a datagram,
\* the third, which would fill the MTU with them, has its own
C30_Witness ==
    /\ call.name = "compact_raw_packets"
    /\ call.returned
    /\ call.mtu = 4
    /\ call.raw_packets = << << 1 >>, << 2, 2 >>, << 3, 3, 3 >> >>
    /\ call.out = << << 1, 2, 2 >>, << 3, 3, 3 >> >>

\* a record as long as the MTU between two short ones: three datagrams
C30_WitnessAlone ==
    /\ call.name = "compact_raw_packets"
    /\ call.returned
    /\ call.mtu = 3
    /\ call.raw_packets = << << 1 >>, << 3, 3, 3 >>, << 1 >> >>
    /\ call.out = call.raw_packets

\* the flight holds a ChangeCipherSpec
HasChangeCipherSpec(f) ==
    \E i \in DOMAIN FlightPackets(f) : FlightPackets(f)[i].content = "ChangeCipherSpec"

\* The local epoch of the client changes only from 0 to 1, in the Preparing
\* iteration of a flight that holds a ChangeCipherSpec, and it does change in
\* every such iteration in which generate() gives the flight.
C21_LocalEpoch ==
    [][ conn.is_client /\ conn.local_epoch = 0 =>
          (conn'.local_epoch # 0
             <=> /\ op'.name = "handshake"
                 /\ op'.state = "Preparing"
                 /\ op'.answer.ok
                 /\ HasChangeCipherSpec(conn.current_flight))
          /\ conn'.local_epoch \in {0, 1}
      ]_vars

\* C21.  Handshake liveness: under the handler (transport_active, read,
\* handle_timeout), with every flight of the peer delivered, the connection
\* eventually has handshake_completed set; and the local epoch of the client
\* goes from 0 to 1 exactly when it prepares the flight that holds the
\* ChangeCipherSpec.
C21_HandshakeLiveness ==
    /\ <>(conn.handshake_completed)
    /\ C21_LocalEpoch

\* the pairs of the checklist of a with candidates l and r
PairsOf(a, l, r) ==
    { i \in DOMAIN a.checklist : a.checklist[i].local = l /\ a.checklist[i].remote = r }

\* no candidate is twice in cands
NoDuplicates(cands) ==
    \A i, j \in DOMAIN cands : cands[i] = cands[j] => i = j

C31_WitnessDuplicate ==
    /\ ice_op.name = "add_remote_candidate"
    /\ ice_op.ret = "Ok"
    /\ agent.remote_candidates = << ice_op.c >>
    /\ Len(agent.checklist) = 1
    /\ agent.checklist[1].binding_request_count > 0

\* the places in the checklist of a of the pairs ping_all_candidates pings
Pinged(a) ==
    { i \in DOMAIN a.checklist :
         /\ a.checklist[i].state \in {"Waiting", "InProgress"}
         /\ a.checklist[i].binding_request_count <= a.max_binding_requests }

\* the remote candidates of the pairs of a at the places of `is`, in the order of
\* the checklist from place i on
RECURSIVE RemotesOf(_, _, _)
RemotesOf(a, is, i) ==
    IF i > Len(a.checklist) THEN << >>
    ELSE (IF i \in is THEN << a.checklist[i].remote >> ELSE << >>) \o RemotesOf(a, is, i + 1)

\* C32.  ping_all_candidates: a Waiting pair becomes InProgress; a Waiting or
\* InProgress pair whose binding_request_count is not above max_binding_requests
\* has the count incremented by one and one binding request sent to its remote
\* candidate; one whose count is above becomes Failed and is sent nothing; the
\* pairs in other states are left as they are.
C32_PingAllCandidates ==
    [][ ice_op'.name = "ping_all_candidates" =>
          LET n == Cardinality(Pinged(agent))
              q == agent'.pending_binding_requests
          IN  /\ Len(agent'.checklist) = Len(agent.checklist)
              /\ \A i \in DOMAIN agent.checklist :
                    LET p  == agent.checklist[i]
                        p2 == agent'.checklist[i]
                    IN  IF i \in Pinged(agent)
                        THEN p2 = [p EXCEPT !.state = "InProgress",
                                            !.binding_request_count = @ + 1]
                        ELSE IF p.state \in {"Waiting", "InProgress"}
                        THEN p2 = [p EXCEPT !.state = "Failed"]
                        ELSE p2 = p
              /\ agent'.sent = agent.sent + n
              /\ agent'.transaction_ids = agent.transaction_ids + n
              /\ Len(q) >= n
              /\ [k \in 1 .. n |-> q[Len(q) - n + k].destination]
                    = RemotesOf(agent, Pinged(agent), 1)
      ]_vars

\* a call that pinged one pair for the first time and marked the other, which was
\* above the limit, Failed
C32_Witness ==
    /\ ice_op.name = "ping_all_candidates"
    /\ Len(agent.checklist) = 2
    /\ \E i, j \in DOMAIN agent.checklist :
          /\ agent.checklist[i].state = "InProgress"
          /\ agent.checklist[i].binding_request_count = 1
          /\ agent.checklist[j].state = "Failed"

\* a call that left a Succeeded pair as it was and pinged the other
C32_WitnessSucceeded ==
    /\ ice_op.name = "ping_all_candidates"
    /\ Len(agent.checklist) = 2
    /\ \E i, j \in DOMAIN agent.checklist :
          /\ agent.checklist[i].state = "Succeeded"
          /\ agent.checklist[j].state = "InProgress"
          /\ agent.checklist[j].binding_request_count = 1

\* the entries of q whose age at t is below the timeout, in the order of q
Young(q, t) ==
    SelectSeq(q, LAMBDA b : t - b.timestamp < MAX_BINDING_REQUEST_TIMEOUT)

\* q without its first entry of transaction id `id`
WithoutFirst(q, id) ==
    LET is == { i \in DOMAIN q : q[i].transaction_id = id }
    IN  IF is = {} THEN q
        ELSE LET i == CHOOSE i \in is : \A j \in is : i <= j
             IN  SubSeq(q, 1, i - 1) \o SubSeq(q, i + 1, Len(q))

\* C33.  Right after send_binding_request and right after
\* handle_inbound_binding_success no pending binding request has an age of
\* MAX_BINDING_REQUEST_TIMEOUT or more, and the younger ones are kept in the
\* order they were put in: after a send they are followed by the new request,
\* after a success they are there but for the one that was answered.
C33_PendingPurged ==
    [][ ice_op'.name \in {"send_binding_request", "handle_inbound_binding_success"} =>
          LET q  == agent.pending_binding_requests
              q2 == agent'.pending_binding_requests
          IN  /\ \A i \in DOMAIN q2 : now - q2[i].timestamp < MAX_BINDING_REQUEST_TIMEOUT
              /\ ice_op'.name = "send_binding_request"
                    => /\ Len(q2) = Len(Young(q, now)) + 1
                       /\ SubSeq(q2, 1, Len(q2) - 1) = Young(q, now)
                       /\ q2[Len(q2)].timestamp = now
                       /\ q2[Len(q2)].transaction_id = ice_op'.m.transaction_id
              /\ ice_op'.name = "handle_inbound_binding_success"
                    => q2 = WithoutFirst(Young(q, now), ice_op'.m.transaction_id)
      ]_vars

\* a request went out when one of the two pending ones had the age of the
\* timeout and the other was younger: the younger one and the new one are left
C33_Witness ==
    /\ ice_op.name = "send_binding_request"
    /\ now = MAX_BINDING_REQUEST_TIMEOUT
    /\ agent.transaction_ids = 3
    /\ Len(agent.pending_binding_requests) = 2
    /\ agent.pending_binding_requests[1].timestamp = 1
    /\ agent.pending_binding_requests[1].transaction_id = 2

\* a transaction id that is not pending came back when the only pending request
\* had the age of the timeout: nothing is pending
C33_WitnessSuccess ==
    /\ ice_op.name = "handle_inbound_binding_success"
    /\ ice_op.ret = "None"
    /\ now = MAX_BINDING_REQUEST_TIMEOUT
    /\ agent.transaction_ids = 1
    /\ agent.pending_binding_requests = << >>

\* the transaction ids of the entries of q
IdsOf(q) == { q[i].transaction_id : i \in DOMAIN q }

\* C37.  A pending binding request is correlated at most once.
\* handle_inbound_binding_success gives Some exactly for the transaction id of a
\* pending request younger than the timeout and takes that entry out, the
\* younger entries with other transaction ids staying as they are, in order; no
\* step brings back a transaction id that is not pending, a new request having
\* a new id; and the call that follows with the same transaction id gives None.
C37_CorrelatedOnce ==
    [][ LET q  == agent.pending_binding_requests
            q2 == agent'.pending_binding_requests
            id == ice_op'.m.transaction_id
        IN  /\ IdsOf(q2) \subseteq IdsOf(q) \cup { i \in 1 .. agent'.transaction_ids :
                                                      i > agent.transaction_ids }
            /\ Cardinality(IdsOf(q2)) = Len(q2)
            /\ ice_op'.name = "handle_inbound_binding_success"
                  => /\ (ice_op'.ret = "Some") = (id \in IdsOf(Young(q, now)))
                     /\ id \notin IdsOf(q2)
                     /\ q2 = SelectSeq(Young(q, now), LAMBDA b : b.transaction_id # id)
                     /\ (ice_op.name = "handle_inbound_binding_success"
                            /\ ice_op.m.transaction_id = id) => ice_op'.ret = "None"
      ]_vars

\* the only request, of transaction id 1, was answered in time, and its
\* transaction id came once more: None
C37_Witness ==
    /\ ice_op.name = "handle_inbound_binding_success"
    /\ ice_op.m.transaction_id = 1
    /\ ice_op.ret = "None"
    /\ now = 0
    /\ agent.sent = 1
    /\ agent.pending_binding_requests = << >>

\* the first of two requests was answered: the second is pending
C37_WitnessOthers ==
    /\ ice_op.name = "handle_inbound_binding_success"
    /\ ice_op.m.transaction_id = 1
    /\ ice_op.ret = "Some"
    /\ now = 0
    /\ agent.sent = 2
    /\ IdsOf(agent.pending_binding_requests) = {2}

\* C34.  validate_selected_pair leaves disconnected_timeout and failed_timeout
\* as they were configured and decides against them on every call: with a
\* selected pair whose remote candidate was last received d ago, the state
\* becomes Failed when failed_timeout is not 0 and the disconnect has lasted
\* beyond it (d > disconnected_timeout + failed_timeout), Disconnected when
\* disconnected_timeout is not 0 and d > disconnected_timeout, Connected
\* otherwise; with no selected pair it gives false and changes nothing.
C34_ValidateSelectedPair ==
    [][ ice_op'.name = "validate_selected_pair" =>
          /\ agent'.disconnected_timeout = agent.disconnected_timeout
          /\ agent'.failed_timeout = agent.failed_timeout
          /\ IF ~IsSome(agent.selected_pair)
             THEN ice_op'.ret = "false" /\ agent' = agent
             ELSE LET d == now - agent.last_received[
                                  agent.checklist[Unwrap(agent.selected_pair)].remote]
                  IN  /\ ice_op'.ret = "true"
                      /\ agent'.connection_state =
                            IF /\ agent.failed_timeout # 0
                               /\ d > agent.disconnected_timeout + agent.failed_timeout
                            THEN "Failed"
                            ELSE IF agent.disconnected_timeout # 0
                                      /\ d > agent.disconnected_timeout
                                 THEN "Disconnected"
                                 ELSE "Connected"
      ]_vars

\* how long ago the local candidate of the selected pair of a sent, at t
SinceSent(a, t) == t - a.last_sent[a.checklist[Unwrap(a.selected_pair)].local]

\* how long ago the remote candidate of the selected pair of a was received from
SinceReceived(a, t) == t - a.last_received[a.checklist[Unwrap(a.selected_pair)].remote]

\* C35, as amended.  check_keepalive sends a binding request on the selected pair
\* exactly when there is a selected pair, keepalive_interval is not 0, and
\* either nothing was sent on the pair within keepalive_interval or nothing was
\* received on it within keepalive_interval; the request goes to the remote
\* candidate of the pair, and a call that sends nothing changes nothing.
C35_KeepaliveAmended ==
    [][ ice_op'.name = "check_keepalive" =>
          LET due == /\ IsSome(agent.selected_pair)
                     /\ agent.keepalive_interval > 0
                     /\ \/ SinceSent(agent, now) > agent.keepalive_interval
                        \/ SinceReceived(agent, now) > agent.keepalive_interval
              q2  == agent'.pending_binding_requests
          IN  /\ due => /\ agent'.sent = agent.sent + 1
                        /\ q2 # << >>
                        /\ q2[Len(q2)].timestamp = now
                        /\ q2[Len(q2)].destination
                              = agent.checklist[Unwrap(agent.selected_pair)].remote
              /\ ~due => agent' = agent
      ]_vars

\* C35.  check_keepalive sends a binding request on the selected pair exactly
\* when keepalive_interval > 0 and no packet was sent or received on the
\* selected pair within keepalive_interval; with keepalive_interval 0 or no
\* selected pair it sends nothing.
C35_Keepalive ==
    [][ ice_op'.name = "check_keepalive" =>
          LET quiet == /\ IsSome(agent.selected_pair)
                       /\ agent.keepalive_interval > 0
                       /\ SinceSent(agent, now) > agent.keepalive_interval
                       /\ SinceReceived(agent, now) > agent.keepalive_interval
          IN  /\ quiet => agent'.sent = agent.sent + 1
              /\ ~quiet => agent'.sent = agent.sent
      ]_vars

\* the peer was heard from within the interval, the agent had sent nothing
\* within it: the keepalive went out
C35_Witness ==
    /\ ice_op.name = "check_keepalive"
    /\ IsSome(agent.selected_pair)
    /\ agent.keepalive_interval = 1
    /\ now = 2
    /\ SinceReceived(agent, now) = 0
    /\ agent.sent = 2
    /\ agent.pending_binding_requests # << >>
    /\ agent.pending_binding_requests[1].timestamp = now

\* a pair selected and nothing sent or received for two ticks, the
\* keepalive_interval 0: nothing went out
C35_WitnessNever ==
    /\ ice_op.name = "check_keepalive"
    /\ IsSome(agent.selected_pair)
    /\ agent.keepalive_interval = 0
    /\ now = 2
    /\ SinceReceived(agent, now) = 2
    /\ SinceSent(agent, now) = 2
    /\ agent.sent = 1

\* the pairs of q are the first pairs of q2, whatever their state
SamePairsFirst(q, q2) ==
    /\ Len(q) <= Len(q2)
    /\ \A i \in DOMAIN q : q2[i].local = q[i].local /\ q2[i].remote = q[i].remote

\* C36.  A step that takes the agent into Failed, and close, leave no local and
\* no remote candidate and leave the checklist, the selected pair and the
\* pending binding requests as they were.  restart that returns Ok leaves all
\* five empty, and one that returns an error changes nothing.  No other
\* operation takes a pair out of the checklist or takes the selection away.
C36_Failed ==
    [][ /\ (\/ agent.connection_state # "Failed" /\ agent'.connection_state = "Failed"
            \/ ice_op'.name = "close")
           => /\ agent'.local_candidates = << >>
              /\ agent'.remote_candidates = << >>
              /\ agent'.checklist = agent.checklist
              /\ agent'.selected_pair = agent.selected_pair
              /\ agent'.pending_binding_requests = agent.pending_binding_requests
        /\ ice_op'.name = "restart"
           => IF ice_op'.ret = "Ok"
              THEN /\ agent'.local_candidates = << >>
                   /\ agent'.remote_candidates = << >>
                   /\ agent'.checklist = << >>
                   /\ agent'.selected_pair = None
                   /\ agent'.pending_binding_requests = << >>
              ELSE agent' = agent
        /\ ice_op'.name # "restart"
           => /\ SamePairsFirst(agent.checklist, agent'.checklist)
              /\ IsSome(agent.selected_pair) => agent'.selected_pair = agent.selected_pair
      ]_vars

\* validate_selected_pair took the agent into Failed: the candidates are gone, the
\* pair is in the checklist and selected, and a request is pending
C36_Witness ==
    /\ ice_op.name = "validate_selected_pair"
    /\ agent.connection_state = "Failed"
    /\ agent.local_candidates = << >>
    /\ agent.remote_candidates = << >>
    /\ agent.checklist # << >>
    /\ IsSome(agent.selected_pair)
    /\ agent.pending_binding_requests # << >>

\* close on a Connected agent with a request pending
C36_WitnessClose ==
    /\ ice_op.name = "close"
    /\ ice_op.state = "Connected"
    /\ agent.local_candidates = << >>
    /\ agent.checklist # << >>
    /\ IsSome(agent.selected_pair)
    /\ agent.pending_binding_requests # << >>

\* restart on an agent that was Failed, after which nothing is left
C36_WitnessRestart ==
    /\ ice_op.name = "restart"
    /\ ice_op.ret = "Ok"
    /\ ice_op.state = "Failed"
    /\ agent.checklist = << >>
    /\ agent.selected_pair = None


\* C39: Closed is not an absorbing connection state. close() leaves the agent
\* Closed; a start_connectivity_checks that returns Ok, or a restart() that
\* returns Ok, called on a Closed agent leaves it Checking. More generally a
\* start_connectivity_checks that returns Ok leaves the agent Checking whatever
\* the state before, and so does a restart() that returns Ok unless the state
\* was New.
C39_ClosedNotAbsorbing ==
    [][ /\ ice_op'.name = "close" => agent'.connection_state = "Closed"
        /\ (/\ ice_op'.name = "start_connectivity_checks"
            /\ ice_op'.ret = "Ok")
           => agent'.connection_state = "Checking"
        /\ (/\ ice_op'.name = "restart"
            /\ ice_op'.ret = "Ok"
            /\ agent.connection_state # "New")
           => agent'.connection_state = "Checking"
        /\ (/\ ice_op'.name = "restart"
            /\ ice_op'.ret = "Ok"
            /\ agent.connection_state = "New")
           => agent'.connection_state = "New"
      ]_vars

\* start_connectivity_checks with non-empty credentials was called on a Closed
\* agent and left it Checking
C39_Witness ==
    /\ ice_op.name = "start_connectivity_checks"
    /\ ice_op.ret = "Ok"
    /\ ice_op.remote_ufrag # ""
    /\ ice_op.remote_pwd # ""
    /\ ice_op.state = "Closed"
    /\ agent.connection_state = "Checking"

\* restart() was called on a Closed agent and left it Checking
C39_WitnessRestart ==
    /\ ice_op.name = "restart"
    /\ ice_op.ret = "Ok"
    /\ ice_op.state = "Closed"
    /\ agent.connection_state = "Checking"

----------------------------------------------------------------------------
\* The closed flag and resumed sessions.

\* C38: the closed flag is set only in close().  A read_and_buffer that returns
\* ErrAlertFatalOrClose leaves is_connection_closed() as it was, and no step
\* but a close() changes it; a write() on a connection that is not closed and
\* whose handshake has completed, the one that follows such a read_and_buffer
\* included, enqueues one ApplicationData record of the local epoch and returns
\* Ok with the length of the payload.
C38_ClosedOnlyInClose ==
    [][ /\ is_connection_closed(conn') # is_connection_closed(conn)
           => op'.name = "close" /\ is_connection_closed(conn')
        /\ (op'.name = "read_and_buffer" /\ op'.ret = "ErrAlertFatalOrClose")
           => is_connection_closed(conn') = is_connection_closed(conn)
        /\ (/\ op'.name = "write"
            /\ ~is_connection_closed(conn)
            /\ is_handshake_completed(conn))
           => /\ op'.ret = "Ok"
              /\ Len(conn'.outgoing_packets) = Len(conn.outgoing_packets) + 1
              /\ Pushed(conn.outgoing_packets, conn'.outgoing_packets).content
                     = "ApplicationData"
              /\ Pushed(conn.outgoing_packets, conn'.outgoing_packets).epoch
                     = get_local_epoch(conn)
              /\ op'.val = Len(Pushed(conn.outgoing_packets, conn'.outgoing_packets).data)
      ]_vars

\* the peer's CloseNotify was answered and read_and_buffer returned
\* ErrAlertFatalOrClose; the connection is not closed
C38_Witness ==
    /\ op.name = "read_and_buffer"
    /\ op.ret = "ErrAlertFatalOrClose"
    /\ op.buf[1].alert.alert_description = "CloseNotify"
    /\ is_handshake_completed(conn)
    /\ ~is_connection_closed(conn)

\* a write after the reply to the peer's CloseNotify: the ApplicationData record
\* stands behind the reply in the outgoing queue, and write returned Ok
C38_WitnessWrite ==
    /\ op.name = "write"
    /\ op.ret = "Ok"
    /\ ~is_connection_closed(conn)
    /\ Len(conn.outgoing_packets) >= 2
    /\ conn.outgoing_packets[Len(conn.outgoing_packets) - 1].content = "Alert"
    /\ conn.outgoing_packets[Len(conn.outgoing_packets) - 1].alert
           = Alert("Warning", "CloseNotify")
    /\ conn.outgoing_packets[Len(conn.outgoing_packets)].content = "ApplicationData"


\* the connection is as DTLSConn::new leaves one made with `initial_state`
NewWith(is_client, initial_state) ==
    op.name = "new" /\ conn = new(is_client, initial_state, INITIAL_TICKER_INTERVAL)

\* C40: resumed sessions.  A connection made with an initial_state starts in
\* Finished, with Flight5 for a client and Flight6 for a server, and
\* handshake_completed false; one made without starts in Preparing, with
\* Flight1 for a client and Flight0 for a server.  The iteration of handshake()
\* that finds the FSM in Finished and handshake_completed false, which is the
\* first of the first call on a resumed session, sets handshake_completed and
\* returns Ok: nothing else of the connection changes, no flight is asked for
\* packets and none is enqueued.
C40_ResumedSession ==
    /\ [](\A is_client \in BOOLEAN, initial_state \in InitialStates :
            NewWith(is_client, initial_state)
               => /\ ~is_handshake_completed(conn)
                  /\ conn.outgoing_packets = << >>
                  /\ IF IsSome(initial_state)
                     THEN /\ conn.current_handshake_state = "Finished"
                          /\ conn.current_flight = (IF is_client THEN "Flight5" ELSE "Flight6")
                     ELSE /\ conn.current_handshake_state = "Preparing"
                          /\ conn.current_flight = (IF is_client THEN "Flight1" ELSE "Flight0"))
    /\ [][ (/\ op'.name = "handshake"
            /\ op'.state = "Finished"
            /\ ~is_handshake_completed(conn))
           => /\ op'.ret = "Ok"
              /\ ~hs_active'
              /\ op'.answer = NoAnswer
              /\ conn' = [conn EXCEPT !.handshake_completed = TRUE]
         ]_vars

\* the first handshake() of a resumed session has returned Ok: the handshake is
\* complete, no flight was generated, no handshake message stamped, nothing
\* enqueued
C40_Witness ==
    /\ op.name = "handshake"
    /\ op.state = "Finished"
    /\ op.ret = "Ok"
    /\ ~hs_active
    /\ is_handshake_completed(conn)
    /\ conn.current_flight \in {"Flight5", "Flight6"}
    /\ conn.flights = None
    /\ conn.stamped = << >>
    /\ conn.outgoing_packets = << >>

\* a server made without an initial_state
C40_WitnessFresh ==
    /\ NewWith(FALSE, None)
    /\ conn.current_handshake_state = "Preparing"
    /\ conn.current_flight = "Flight0"

\* a client made with an initial_state
C40_WitnessResumed ==
    /\ \E initial_state \in InitialStates \ { None } : NewWith(TRUE, initial_state)
    /\ conn.current_handshake_state = "Finished"
    /\ conn.current_flight = "Flight5"

====
